---------------------------- MODULE Spec2Model ----------------------------
(***************************************************************************)
(* Model of penny-knowledge-core: the ontology reconciliation run          *)
(* (tools/composite.py, ensure_ontology), the fleet router's retried       *)
(* request, client resolution and health check (router/fleet.py), the      *)
(* identity context (router/context.py, tools/profile.py), the validation  *)
(* of a manifest (schemas/manifest.py, server/main.py) and the backend the *)
(* requests reach (docker/mock_heart.py).                                  *)
(*                                                                         *)
(* A name is a sequence of one-character strings, so that str.lower() and  *)
(* difflib's SequenceMatcher are computed and not assumed.                 *)
(***************************************************************************)
EXTENDS Integers, Sequences, FiniteSets, TLC

(***************************************************************************)
(* Names and the fuzzy matcher                                             *)
(***************************************************************************)

\* str.lower() on one character
LowerChar(c) ==
    CASE c = "A" -> "a" [] c = "B" -> "b" [] c = "C" -> "c"
      [] c = "D" -> "d" [] c = "E" -> "e" [] c = "F" -> "f"
      [] c = "G" -> "g" [] c = "H" -> "h" [] c = "I" -> "i"
      [] c = "J" -> "j" [] c = "K" -> "k" [] c = "L" -> "l"
      [] c = "M" -> "m" [] c = "N" -> "n" [] c = "O" -> "o"
      [] c = "P" -> "p" [] c = "Q" -> "q" [] c = "R" -> "r"
      [] c = "S" -> "s" [] c = "T" -> "t" [] c = "U" -> "u"
      [] c = "V" -> "v" [] c = "W" -> "w" [] c = "X" -> "x"
      [] c = "Y" -> "y" [] c = "Z" -> "z"
      [] OTHER -> c

\* str.lower()
Lower(s) == [i \in 1..Len(s) |-> LowerChar(s[i])]

\* length of the common run of a (from i, below ahi) and b (from j, below bhi)
RECURSIVE RunLen(_, _, _, _, _, _)
RunLen(a, b, i, j, ahi, bhi) ==
    IF i < ahi /\ j < bhi /\ a[i] = b[j]
    THEN 1 + RunLen(a, b, i + 1, j + 1, ahi, bhi)
    ELSE 0

\* SequenceMatcher.find_longest_match without junk: the longest block of
\* a[alo..ahi-1] and b[blo..bhi-1]; of these the one starting earliest in a,
\* and of those the one starting earliest in b.  <<i, j, k>>, k = 0 if none.
FindLongestMatch(a, b, alo, ahi, blo, bhi) ==
    LET cand == {<<i, j, RunLen(a, b, i, j, ahi, bhi)>> :
                    i \in alo..(ahi - 1), j \in blo..(bhi - 1)}
        Better(x, y) == \/ x[3] > y[3]
                        \/ x[3] = y[3] /\ x[1] < y[1]
                        \/ x[3] = y[3] /\ x[1] = y[1] /\ x[2] <= y[2]
    IN IF cand = {} THEN <<alo, blo, 0>>
       ELSE CHOOSE x \in cand : \A y \in cand : Better(x, y)

\* SequenceMatcher.get_matching_blocks: total size of the matching blocks
RECURSIVE MatchingSize(_, _, _, _, _, _)
MatchingSize(a, b, alo, ahi, blo, bhi) ==
    LET m == FindLongestMatch(a, b, alo, ahi, blo, bhi)
    IN IF m[3] = 0 THEN 0
       ELSE m[3]
            + (IF alo < m[1] /\ blo < m[2]
               THEN MatchingSize(a, b, alo, m[1], blo, m[2]) ELSE 0)
            + (IF m[1] + m[3] < ahi /\ m[2] + m[3] < bhi
               THEN MatchingSize(a, b, m[1] + m[3], ahi, m[2] + m[3], bhi)
               ELSE 0)

\* _fuzzy_match without the lower-casing of the two names
fuzzy_match_case_sensitive(name1, name2) ==
    IF Len(name1) + Len(name2) = 0 THEN <<1, 1>>
    ELSE <<2 * MatchingSize(name1, name2, 1, Len(name1) + 1,
                            1, Len(name2) + 1),
           Len(name1) + Len(name2)>>

\* SequenceMatcher(None, name1.lower(), name2.lower()).ratio() as the
\* fraction <<2 * matches, length>>; <<1, 1>> when both are empty
fuzzy_match(name1, name2) ==
    LET a == Lower(name1)
        b == Lower(name2)
    IN IF Len(a) + Len(b) = 0 THEN <<1, 1>>
       ELSE <<2 * MatchingSize(a, b, 1, Len(a) + 1, 1, Len(b) + 1),
              Len(a) + Len(b)>>

\* FUZZY_MATCH_THRESHOLD = 0.85, in hundredths
FUZZY_MATCH_THRESHOLD == 85

\* ratio >= FUZZY_MATCH_THRESHOLD
AtLeastThreshold(ratio) == 100 * ratio[1] >= FUZZY_MATCH_THRESHOLD * ratio[2]


(***************************************************************************)
(* Bounds and input pools                                                  *)
(***************************************************************************)

\* longest list of declared relations in a manifest
MaxRels == 2

\* longest list of declared types in a manifest
MaxTypes == 1

\* failed transport attempts the environment injects in a behaviour of one
\* call of ensure_ontology
MaxFaults == 3

\* failed transport attempts the environment injects in a behaviour of two
\* calls of ensure_ontology
MaxRepeatFaults == 1

\* connection failures and timeouts met by one request of a unit of work
MaxDispatchFaults == 1

\* the largest attempt number the backoff schedule is computed for
MaxAttemptNumber == 8

\* longest list of declared relations in a manifest whose diff is built
\* over a snapshot of similar and dissimilar names
MaxPartitionRels == 3

\* longest list of declared types in such a manifest
MaxPartitionTypes == 2

nTag  == <<"T","a","g">>
ntag  == <<"t","a","g">>
ntags == <<"t","a","g","s">>
nAmt  == <<"A","m","t">>
nDoc  == <<"D","o","c">>
ndocs == <<"d","o","c","s">>

\* the units of work that call ensure_ontology, in calling order
RunIds == {"r1", "r2"}

\* the spaces of the backend, and the one the calls target
Spaces == {"s1", "s2"}

TargetSpaces == {"s1"}

\* RelationDefinition: the names a manifest may declare
RelationDefinitions == {[name |-> n] : n \in {nTag, ntag, ntags}}

\* TypeDefinition: name and the relation names it references
TypeDefinitions ==
    { [name |-> nDoc,  relations |-> <<nTag, nAmt>>],
      [name |-> ndocs, relations |-> <<ntags, ntag>>] }

SeqsUpTo(S, n) == UNION {[1..k -> S] : k \in 0..n}

\* OntologyManifest
Manifests ==
    {[relations |-> rs, types |-> ts] :
        rs \in SeqsUpTo(RelationDefinitions, MaxRels),
        ts \in SeqsUpTo(TypeDefinitions, MaxTypes)}

\* EnsureOntologyInput
Inputs ==
    {[space_id |-> s, manifest |-> m, dry_run |-> d] :
        s \in TargetSpaces, m \in Manifests, d \in BOOLEAN}

\* the backend's stores before the first call: relations, types, ids in
\* use.  The first holds nothing in the target space.
InitialBackends ==
    { [relations |-> <<[id |-> 1, spaceId |-> "s2", name |-> nTag]>>,
       types |-> <<[id |-> 2, spaceId |-> "s2", name |-> nDoc,
                    recommendedRelations |-> <<1>>]>>,
       used |-> 2],
      [relations |-> <<[id |-> 1, spaceId |-> "s1", name |-> ntag]>>,
       types |-> <<>>, used |-> 1],
      [relations |-> <<[id |-> 1, spaceId |-> "s1", name |-> ntags]>>,
       types |-> <<[id |-> 2, spaceId |-> "s1", name |-> nDoc,
                    recommendedRelations |-> <<1>>]>>,
       used |-> 2] }

\* every name that can occur, declared or stored
AllNames ==
    {d.name : d \in RelationDefinitions} \cup {d.name : d \in TypeDefinitions}
    \cup UNION {{b.relations[i].name : i \in 1..Len(b.relations)}
                \cup {b.types[i].name : i \in 1..Len(b.types)} :
                b \in InitialBackends}

\* the pairs <<name1, name2>> of names that can occur with
\* _fuzzy_match(name1, name2) >= FUZZY_MATCH_THRESHOLD
SimilarPairs ==
    {p \in {<<name1, name2>> : name1 \in AllNames, name2 \in AllNames} :
        AtLeastThreshold(fuzzy_match(p[1], p[2]))}

(***************************************************************************)
(* State                                                                   *)
(***************************************************************************)

VARIABLES
    relations,   \* mock_heart.relations, in insertion order
    types,       \* mock_heart.types, in insertion order
    next_id,     \* the next identifier gen_id hands out
    call,        \* per unit of work: its FleetRouter.request in progress
    run,         \* per unit of work: ensure_ontology's locals and position
    requests,    \* history: per unit of work, the requests it handed to the router
    bindings,    \* history: per unit of work, the name-to-identifier resolutions
    faults,      \* history: failed transport attempts so far
    similar,     \* the matcher's table, computed once in Init
    matching,    \* one use of the matcher on its own: its input and results
    settings,    \* Settings: default_profile
    clients,     \* FleetRouter._clients: the profile names that have a client
    orphans,     \* the profiles with a client that was replaced in _clients
                 \* and never closed
    closed,      \* the profiles whose client in _clients close has closed
    current_profile, \* per unit of work: the value of ContextVar _current_profile
    unit,        \* per unit of work: its last context operation and request
    health,      \* FleetRouter.health_check in progress and its results
    session      \* history: the profile of the last successful switch_profile

backendVars == <<relations, types, next_id>>
ontologyVars ==
    <<relations, types, next_id, call, run, requests, bindings, faults,
      similar, matching>>
fleetVars ==
    <<settings, clients, orphans, closed, current_profile, unit, health,
      session>>
vars == <<ontologyVars, fleetVars>>

\* _fuzzy_match(name1, name2) >= FUZZY_MATCH_THRESHOLD, looked up
Similar(name1, name2) == <<name1, name2>> \in similar

(***************************************************************************)
(* The backend (docker/mock_heart.py)                                      *)
(***************************************************************************)

\* GET /v1/spaces/{space_id}/relations
list_relations(space_id) ==
    SelectSeq(relations, LAMBDA r : r.spaceId = space_id)

\* GET /v1/spaces/{space_id}/types
list_types(space_id) ==
    SelectSeq(types, LAMBDA t : t.spaceId = space_id)

\* POST /v1/spaces/{space_id}/relations: the stored relation
create_relation(space_id, request) ==
    [id |-> next_id, spaceId |-> space_id, name |-> request.name]

\* POST /v1/spaces/{space_id}/types: the stored type
create_type(space_id, request) ==
    [id |-> next_id, spaceId |-> space_id, name |-> request.name,
     recommendedRelations |-> request.recommendedRelations]

\* a backend that creates no second relation of a name in a space: the
\* relation already stored is the answer
Handle_upserts_relations(c) ==
    LET same == {i \in DOMAIN relations :
                   /\ relations[i].spaceId = c.space_id
                   /\ c.method = "POST"
                   /\ relations[i].name = c.json.name}
    IN IF c.method = "GET"
       THEN [response |-> IF c.path = "relations"
                          THEN list_relations(c.space_id)
                          ELSE list_types(c.space_id),
             relations |-> relations, types |-> types, next_id |-> next_id]
       ELSE IF c.path = "relations" /\ same # {}
       THEN [response |-> relations[CHOOSE i \in same : TRUE],
             relations |-> relations, types |-> types, next_id |-> next_id]
       ELSE IF c.path = "relations"
       THEN [response |-> create_relation(c.space_id, c.json),
             relations |-> Append(relations,
                                  create_relation(c.space_id, c.json)),
             types |-> types, next_id |-> next_id + 1]
       ELSE [response |-> create_type(c.space_id, c.json),
             relations |-> relations,
             types |-> Append(types, create_type(c.space_id, c.json)),
             next_id |-> next_id + 1]

\* the backend handles request c: its answer, and the stores afterwards
Handle(c) ==
    IF c.method = "GET"
    THEN [response |-> IF c.path = "relations" THEN list_relations(c.space_id)
                       ELSE list_types(c.space_id),
          relations |-> relations, types |-> types, next_id |-> next_id]
    ELSE IF c.path = "relations"
    THEN [response |-> create_relation(c.space_id, c.json),
          relations |-> Append(relations, create_relation(c.space_id, c.json)),
          types |-> types, next_id |-> next_id + 1]
    ELSE [response |-> create_type(c.space_id, c.json),
          relations |-> relations,
          types |-> Append(types, create_type(c.space_id, c.json)),
          next_id |-> next_id + 1]

(***************************************************************************)
(* FleetRouter.request (router/fleet.py) under its tenacity policy         *)
(***************************************************************************)

NoJson == [absent |-> TRUE]

NoCall ==
    [state |-> "none", method |-> "", path |-> "", space_id |-> "",
     json |-> NoJson, attempts |-> <<>>, waits |-> <<>>,
     response |-> <<>>, error |-> ""]

\* router.get / router.post: a request handed to FleetRouter.request
NewCall(method, path, space_id, json) ==
    [NoCall EXCEPT !.state = "active", !.method = method, !.path = path,
                   !.space_id = space_id, !.json = json]

\* what one transport attempt ends with: a 2xx response, a response with an
\* error status (raise_for_status), a refused connection, a timeout
Outcomes == {"ok", "HTTPStatusError", "ConnectError", "TimeoutException"}

\* a retry condition that takes every httpx error, status errors included
retry_if_any_http_error(exc) ==
    exc \in {"ConnectError", "TimeoutException", "HTTPStatusError"}

\* retry=retry_if_exception_type((httpx.ConnectError, httpx.TimeoutException))
retry_if_exception_type(exc) == exc \in {"ConnectError", "TimeoutException"}

\* stop=stop_after_attempt(3)
STOP_AFTER_ATTEMPT == 3

\* a stop condition that lets one attempt too many through
stop_after_attempt_exceeded(attempt_number) ==
    attempt_number > STOP_AFTER_ATTEMPT

stop_after_attempt(attempt_number) == attempt_number >= STOP_AFTER_ATTEMPT

Pow2(n) == IF n <= 0 THEN 1 ELSE 2 ^ n

\* a backoff whose exponent is the attempt number: 1 s after the first
\* failed attempt
wait_exponential_from_attempt(attempt_number) ==
    LET exp == 500 * Pow2(attempt_number)
    IN IF exp < 500 THEN 500 ELSE IF exp > 10000 THEN 10000 ELSE exp

\* wait=wait_exponential(multiplier=0.5, min=0.5, max=10), in milliseconds
wait_exponential(attempt_number) ==
    LET exp == 500 * Pow2(attempt_number - 1)
    IN IF exp < 500 THEN 500 ELSE IF exp > 10000 THEN 10000 ELSE exp

\* the policy without reraise=True: exhaustion raises tenacity's RetryError
AfterAttempt_wraps_exhaustion(c, outcome, response) ==
    LET n == Len(c.attempts) + 1
        c1 == [c EXCEPT !.attempts = Append(@, outcome)]
    IN IF outcome = "ok"
       THEN [c1 EXCEPT !.state = "returned", !.response = response]
       ELSE IF retry_if_exception_type(outcome) /\ ~stop_after_attempt(n)
       THEN [c1 EXCEPT !.waits = Append(@, wait_exponential(n))]
       ELSE IF retry_if_exception_type(outcome)
       THEN [c1 EXCEPT !.state = "raised", !.error = "RetryError"]
       ELSE [c1 EXCEPT !.state = "raised", !.error = outcome]

\* the policy with a handler of its own for exhaustion: the last transport
\* error is replaced by an error of another kind
AfterAttempt_surfaces_unavailable(c, outcome, response) ==
    LET n == Len(c.attempts) + 1
        c1 == [c EXCEPT !.attempts = Append(@, outcome)]
    IN IF outcome = "ok"
       THEN [c1 EXCEPT !.state = "returned", !.response = response]
       ELSE IF retry_if_exception_type(outcome) /\ ~stop_after_attempt(n)
       THEN [c1 EXCEPT !.waits = Append(@, wait_exponential(n))]
       ELSE IF retry_if_exception_type(outcome)
       THEN [c1 EXCEPT !.state = "raised", !.error = "RemoteUnavailable"]
       ELSE [c1 EXCEPT !.state = "raised", !.error = outcome]

\* the call after one more transport attempt ended with outcome, the backend
\* having answered with response
AfterAttempt(c, outcome, response) ==
    LET n == Len(c.attempts) + 1
        c1 == [c EXCEPT !.attempts = Append(@, outcome)]
    IN IF outcome = "ok"
       THEN [c1 EXCEPT !.state = "returned", !.response = response]
       ELSE IF retry_if_exception_type(outcome) /\ ~stop_after_attempt(n)
       THEN [c1 EXCEPT !.waits = Append(@, wait_exponential(n))]
       ELSE [c1 EXCEPT !.state = "raised", !.error = outcome]

\* one transport attempt of the request of unit r: client.request and
\* raise_for_status inside the retrying wrapper.  A request that timed out
\* may or may not have been handled by the backend.
Attempt(r, budget) ==
    /\ call[r].state = "active"
    /\ \E outcome \in Outcomes :
         /\ outcome # "ok" => faults < budget
         /\ \E handled \in BOOLEAN :
              /\ outcome = "ok" => handled
              /\ outcome \in {"HTTPStatusError", "ConnectError"} => ~handled
              /\ (outcome = "TimeoutException" /\ call[r].method = "GET")
                     => ~handled
              /\ LET h == Handle(call[r])
                 IN /\ call' = [call EXCEPT
                                  ![r] = AfterAttempt(@, outcome, h.response)]
                    /\ IF handled
                       THEN /\ relations' = h.relations
                            /\ types' = h.types
                            /\ next_id' = h.next_id
                       ELSE UNCHANGED backendVars
         /\ faults' = IF outcome = "ok" THEN faults ELSE faults + 1
    /\ UNCHANGED <<run, requests, bindings, similar, matching,
                 fleetVars>>

\* one transport attempt of the request of unit r, the failures of the
\* environment not counted: every attempt may fail
UnboundedAttempt(r) ==
    /\ call[r].state = "active"
    /\ \E outcome \in Outcomes :
         \E handled \in BOOLEAN :
              /\ outcome = "ok" => handled
              /\ outcome \in {"HTTPStatusError", "ConnectError"} => ~handled
              /\ (outcome = "TimeoutException" /\ call[r].method = "GET")
                     => ~handled
              /\ LET h == Handle(call[r])
                 IN /\ call' = [call EXCEPT
                                  ![r] = AfterAttempt(@, outcome, h.response)]
                    /\ IF handled
                       THEN /\ relations' = h.relations
                            /\ types' = h.types
                            /\ next_id' = h.next_id
                       ELSE UNCHANGED backendVars
    /\ UNCHANGED <<run, requests, bindings, faults, similar, matching,
                   fleetVars>>

RequestAttempt(r) == Attempt(r, MaxFaults)

RepeatRequestAttempt(r) == Attempt(r, MaxRepeatFaults)

\* the history of requests with call c added, if c is a request
Logged(log, c) ==
    IF c.state = "active"
    THEN Append(log, [method |-> c.method, path |-> c.path, json |-> c.json])
    ELSE log

(***************************************************************************)
(* The reconciliation run (tools/composite.py)                             *)
(***************************************************************************)

\* _find_matching_relation with a scan that stops one element early
find_matching_relation_skips_last(name, existing_relations) ==
    LET hits == {i \in 1..(Len(existing_relations) - 1) :
                   Similar(name, existing_relations[i].name)}
    IN IF hits = {} THEN <<>>
       ELSE <<existing_relations[CHOOSE i \in hits : \A j \in hits : i <= j]>>

\* _find_matching_relation that returns an element of the same name, up to
\* case, when there is one, and the first that reaches the threshold otherwise
find_matching_relation_prefers_exact(name, existing_relations) ==
    LET hits == {i \in 1..Len(existing_relations) :
                   Similar(name, existing_relations[i].name)}
        exact == {i \in hits :
                    Lower(existing_relations[i].name) = Lower(name)}
        from == IF exact # {} THEN exact ELSE hits
    IN IF hits = {} THEN <<>>
       ELSE <<existing_relations[CHOOSE i \in from : \A j \in from : i <= j]>>

\* _find_matching_relation: the first existing relation whose similarity to
\* name reaches the threshold, as <<rel>>; <<>> for None
find_matching_relation(name, existing_relations) ==
    LET hits == {i \in 1..Len(existing_relations) :
                   Similar(name, existing_relations[i].name)}
    IN IF hits = {} THEN <<>>
       ELSE <<existing_relations[CHOOSE i \in hits : \A j \in hits : i <= j]>>

\* _find_matching_type
find_matching_type(name, existing_types) ==
    LET hits == {i \in 1..Len(existing_types) :
                   Similar(name, existing_types[i].name)}
    IN IF hits = {} THEN <<>>
       ELSE <<existing_types[CHOOSE i \in hits : \A j \in hits : i <= j]>>

\* _fetch_existing_relations: the AnyTypeRelation list built from the response
fetch_existing_relations(response) ==
    [i \in 1..Len(response) |-> [id |-> response[i].id, name |-> response[i].name]]

\* _fetch_existing_types: the AnyTypeType list built from the response
fetch_existing_types(response) ==
    [i \in 1..Len(response) |-> [id |-> response[i].id, name |-> response[i].name]]

EmptyMap == [k \in {} |-> 0]

\* dict.get(key), 0 standing for the absent (falsy) identifier
Get(map, key) == IF key \in DOMAIN map THEN map[key] ELSE 0

\* Step 2 of ensure_ontology: the loop over manifest.relations
RECURSIVE DiffRelations(_, _, _)
DiffRelations(defs, existing_relations, acc) ==
    IF defs = <<>> THEN acc
    ELSE LET rel_def == Head(defs)
             match == find_matching_relation(rel_def.name, existing_relations)
         IN DiffRelations(Tail(defs), existing_relations,
              IF match # <<>>
              THEN [acc EXCEPT
                      !.skipped_relations = Append(@, rel_def.name),
                      !.relation_name_to_id =
                          (Lower(rel_def.name) :> match[1].id) @@ @,
                      !.matched = @ \cup {[kind |-> "relation",
                                            name |-> Lower(rel_def.name),
                                            id |-> match[1].id,
                                            how |-> "matched"]}]
              ELSE [acc EXCEPT !.missing_relations = Append(@, rel_def)])

\* Step 3 of ensure_ontology: the loop over manifest.types
RECURSIVE DiffTypes(_, _, _)
DiffTypes(defs, existing_types, acc) ==
    IF defs = <<>> THEN acc
    ELSE LET type_def == Head(defs)
             match == find_matching_type(type_def.name, existing_types)
         IN DiffTypes(Tail(defs), existing_types,
              IF match # <<>>
              THEN [acc EXCEPT
                      !.skipped_types = Append(@, type_def.name),
                      !.matched = @ \cup {[kind |-> "type",
                                            name |-> Lower(type_def.name),
                                            id |-> match[1].id,
                                            how |-> "matched"]}]
              ELSE [acc EXCEPT !.missing_types = Append(@, type_def)])

Names(defs) == [i \in 1..Len(defs) |-> defs[i].name]

\* OntologyDiff with missing_types filled from the relations
OntologyDiff_types_from_relations(missing_relations, missing_types, skipped_relations, skipped_types) ==
    [missing_relations |-> Names(missing_relations),
     missing_types |-> Names(missing_relations),
     existing_relations |-> skipped_relations,
     existing_types |-> skipped_types]

\* the sequence without the later occurrences of its elements
RECURSIVE RemoveDuplicates(_)
RemoveDuplicates(seq) ==
    IF seq = <<>> THEN <<>>
    ELSE LET front == RemoveDuplicates(SubSeq(seq, 1, Len(seq) - 1))
             last == seq[Len(seq)]
         IN IF \E i \in DOMAIN front : front[i] = last
            THEN front ELSE Append(front, last)

\* a diff that lists every missing name once
OntologyDiff_distinct_missing(missing_relations, missing_types, skipped_relations, skipped_types) ==
    [missing_relations |-> RemoveDuplicates(Names(missing_relations)),
     missing_types |-> RemoveDuplicates(Names(missing_types)),
     existing_relations |-> skipped_relations,
     existing_types |-> skipped_types]

\* OntologyDiff
OntologyDiff(missing_relations, missing_types, skipped_relations, skipped_types) ==
    [missing_relations |-> Names(missing_relations),
     missing_types |-> Names(missing_types),
     existing_relations |-> skipped_relations,
     existing_types |-> skipped_types]

NoDiff == OntologyDiff(<<>>, <<>>, <<>>, <<>>)

NoInput ==
    [space_id |-> "", manifest |-> [relations |-> <<>>, types |-> <<>>],
     dry_run |-> FALSE]

NoResult == [absent |-> TRUE]

\* a unit of work that has not called ensure_ontology
IdleRun ==
    [pc |-> "idle", input |-> NoInput,
     existing_relations |-> <<>>, existing_types |-> <<>>,
     missing_relations |-> <<>>, skipped_relations |-> <<>>,
     relation_name_to_id |-> EmptyMap,
     missing_types |-> <<>>, skipped_types |-> <<>>,
     diff |-> NoDiff,
     created_relations |-> <<>>, created_types |-> <<>>,
     result |-> NoResult, error |-> "",
     start_relations |-> <<>>, start_types |-> <<>>]

\* EnsureOntologyOutput
EnsureOntologyOutput(u, dry_run) ==
    [created_relations |-> IF dry_run THEN <<>> ELSE u.created_relations,
     created_types |-> IF dry_run THEN <<>> ELSE u.created_types,
     skipped_relations |-> u.skipped_relations,
     skipped_types |-> u.skipped_types,
     diff |-> u.diff,
     dry_run |-> dry_run]

\* _create_relation's payload
RelationPayload(definition) == [name |-> definition.name]

\* Step 5 without the "if rel_id" test: an unresolved reference adds an
\* empty id
RECURSIVE ResolveRelationIds_keeps_unresolved(_, _)
ResolveRelationIds_keeps_unresolved(rel_names, relation_name_to_id) ==
    IF rel_names = <<>> THEN <<>>
    ELSE <<Get(relation_name_to_id, Lower(Head(rel_names)))>>
         \o ResolveRelationIds_keeps_unresolved(Tail(rel_names),
                                                relation_name_to_id)

\* a lookup of Step 5 that falls back on similarity: a reference that is
\* no key of relation_name_to_id takes the id of a key it fuzzy-matches
RECURSIVE ResolveRelationIds_by_similarity(_, _)
ResolveRelationIds_by_similarity(rel_names, relation_name_to_id) ==
    IF rel_names = <<>> THEN <<>>
    ELSE LET key == Lower(Head(rel_names))
             close == {k \in DOMAIN relation_name_to_id : Similar(key, k)}
             rel_id == IF Get(relation_name_to_id, key) # 0
                       THEN Get(relation_name_to_id, key)
                       ELSE IF close # {}
                       THEN relation_name_to_id[CHOOSE k \in close : TRUE]
                       ELSE 0
             rest == ResolveRelationIds_by_similarity(Tail(rel_names),
                                                      relation_name_to_id)
         IN IF rel_id # 0 THEN <<rel_id>> \o rest ELSE rest

\* the lookup of Step 5 keeping one occurrence of each identifier
RECURSIVE ResolveRelationIds_dedups(_, _)
ResolveRelationIds_dedups(rel_names, relation_name_to_id) ==
    IF rel_names = <<>> THEN <<>>
    ELSE LET rel_id == Get(relation_name_to_id, Lower(Head(rel_names)))
             rest == ResolveRelationIds_dedups(Tail(rel_names),
                                               relation_name_to_id)
         IN IF rel_id # 0 /\ \A k \in DOMAIN rest : rest[k] # rel_id
            THEN <<rel_id>> \o rest
            ELSE rest

\* Step 5, "Resolve relation names to IDs": the ids of the references found
\* in relation_name_to_id, in reference order
RECURSIVE ResolveRelationIds(_, _)
ResolveRelationIds(rel_names, relation_name_to_id) ==
    IF rel_names = <<>> THEN <<>>
    ELSE LET rel_id == Get(relation_name_to_id, Lower(Head(rel_names)))
             rest == ResolveRelationIds(Tail(rel_names), relation_name_to_id)
         IN IF rel_id # 0 THEN <<rel_id>> \o rest ELSE rest

\* _create_type's payload
TypePayload(definition, relation_ids) ==
    [name |-> definition.name, recommendedRelations |-> relation_ids]

\* Steps 4 and 5 in the wrong order: types are posted before relations
NextCreation_types_first(u) ==
    IF Len(u.created_types) < Len(u.missing_types)
    THEN LET type_def == u.missing_types[Len(u.created_types) + 1]
             relation_ids == ResolveRelationIds(type_def.relations,
                                                u.relation_name_to_id)
         IN [run |-> [u EXCEPT !.pc = "create_type"],
             call |-> NewCall("POST", "types", u.input.space_id,
                         TypePayload(type_def, relation_ids))]
    ELSE IF Len(u.created_relations) < Len(u.missing_relations)
    THEN [run |-> [u EXCEPT !.pc = "create_relation"],
          call |-> NewCall("POST", "relations", u.input.space_id,
                      RelationPayload(
                          u.missing_relations[Len(u.created_relations) + 1]))]
    ELSE [run |-> [u EXCEPT !.pc = "returned",
                            !.result = EnsureOntologyOutput(u, FALSE)],
          call |-> NoCall]

\* a Step 5 that sends its type requests with PUT
NextCreation_puts_types(u) ==
    IF Len(u.created_relations) < Len(u.missing_relations)
    THEN [run |-> [u EXCEPT !.pc = "create_relation"],
          call |-> NewCall("POST", "relations", u.input.space_id,
                      RelationPayload(
                          u.missing_relations[Len(u.created_relations) + 1]))]
    ELSE IF Len(u.created_types) < Len(u.missing_types)
    THEN LET type_def == u.missing_types[Len(u.created_types) + 1]
             relation_ids == ResolveRelationIds(type_def.relations,
                                                u.relation_name_to_id)
         IN [run |-> [u EXCEPT !.pc = "create_type"],
             call |-> NewCall("PUT", "types", u.input.space_id,
                         TypePayload(type_def, relation_ids))]
    ELSE [run |-> [u EXCEPT !.pc = "returned",
                            !.result = EnsureOntologyOutput(u, FALSE)],
          call |-> NoCall]

\* the run from the top of Step 4 or after a creation's sleep: the next
\* missing relation is posted, then the next missing type, then the result
\* is returned
NextCreation(u) ==
    IF Len(u.created_relations) < Len(u.missing_relations)
    THEN [run |-> [u EXCEPT !.pc = "create_relation"],
          call |-> NewCall("POST", "relations", u.input.space_id,
                      RelationPayload(
                          u.missing_relations[Len(u.created_relations) + 1]))]
    ELSE IF Len(u.created_types) < Len(u.missing_types)
    THEN LET type_def == u.missing_types[Len(u.created_types) + 1]
             relation_ids == ResolveRelationIds(type_def.relations,
                                                u.relation_name_to_id)
         IN [run |-> [u EXCEPT !.pc = "create_type"],
             call |-> NewCall("POST", "types", u.input.space_id,
                         TypePayload(type_def, relation_ids))]
    ELSE [run |-> [u EXCEPT !.pc = "returned",
                            !.result = EnsureOntologyOutput(u, FALSE)],
          call |-> NoCall]

Finished(r) == run[r].pc \in {"returned", "raised"}

\* ensure_ontology(input) is called by unit r: Step 1 sends the relations
\* fetch
ensure_ontology(r, input) ==
    /\ run[r].pc = "idle"
    /\ run' = [run EXCEPT ![r] =
                 [IdleRun EXCEPT !.pc = "fetch_relations", !.input = input,
                                 !.start_relations = relations,
                                 !.start_types = types]]
    /\ call' = [call EXCEPT ![r] =
                  NewCall("GET", "relations", input.space_id, NoJson)]
    /\ requests' = [requests EXCEPT ![r] = Logged(@, call'[r])]
    /\ UNCHANGED <<backendVars, bindings, faults, similar, matching,
                 fleetVars>>

\* one call, of any input
FirstCall ==
    /\ run["r1"].pc = "idle"
    /\ \E input \in Inputs : ensure_ontology("r1", input)

\* the call that immediately follows the first one, once that is over: the
\* same manifest on the same space, dry or not
SecondCall ==
    /\ Finished("r1")
    /\ run["r2"].pc = "idle"
    /\ \E d \in BOOLEAN :
         ensure_ontology("r2", [run["r1"].input EXCEPT !.dry_run = d])

\* a second unit calls ensure_ontology with the same input while the call
\* of the first is under way: the two calls share nothing but the backend
ConcurrentCall ==
    /\ run["r1"].pc # "idle"
    /\ ~Finished("r1")
    /\ run["r2"].pc = "idle"
    /\ ensure_ontology("r2", run["r1"].input)

\* the relations fetch returned: the types fetch is sent
FetchedRelations(r) ==
    /\ run[r].pc = "fetch_relations"
    /\ call[r].state = "returned"
    /\ run' = [run EXCEPT ![r] =
                 [@ EXCEPT !.pc = "fetch_types",
                           !.existing_relations =
                               fetch_existing_relations(call[r].response)]]
    /\ call' = [call EXCEPT ![r] =
                  NewCall("GET", "types", run[r].input.space_id, NoJson)]
    /\ requests' = [requests EXCEPT ![r] = Logged(@, call'[r])]
    /\ UNCHANGED <<backendVars, bindings, faults, similar, matching,
                 fleetVars>>

\* Steps 2 and 3 looking at the dry-run flag: a dry run diffs the manifest
\* against nothing
Plan_dry_run_sees_nothing(u, existing_types) ==
    LET manifest == u.input.manifest
        rels == DiffRelations(manifest.relations,
                   IF u.input.dry_run THEN <<>> ELSE u.existing_relations,
                   [missing_relations |-> <<>>, skipped_relations |-> <<>>,
                    relation_name_to_id |-> EmptyMap, matched |-> {}])
        typs == DiffTypes(manifest.types,
                   IF u.input.dry_run THEN <<>> ELSE existing_types,
                   [missing_types |-> <<>>, skipped_types |-> <<>>,
                    matched |-> {}])
    IN [run |-> [u EXCEPT
                   !.existing_types = existing_types,
                   !.missing_relations = rels.missing_relations,
                   !.skipped_relations = rels.skipped_relations,
                   !.relation_name_to_id = rels.relation_name_to_id,
                   !.missing_types = typs.missing_types,
                   !.skipped_types = typs.skipped_types,
                   !.diff = OntologyDiff(rels.missing_relations,
                                         typs.missing_types,
                                         rels.skipped_relations,
                                         typs.skipped_types)],
        matched |-> rels.matched \cup typs.matched]

\* Steps 2 and 3 and the diff, from the two snapshots
Plan(u, existing_types) ==
    LET manifest == u.input.manifest
        rels == DiffRelations(manifest.relations, u.existing_relations,
                   [missing_relations |-> <<>>, skipped_relations |-> <<>>,
                    relation_name_to_id |-> EmptyMap, matched |-> {}])
        typs == DiffTypes(manifest.types, existing_types,
                   [missing_types |-> <<>>, skipped_types |-> <<>>,
                    matched |-> {}])
    IN [run |-> [u EXCEPT
                   !.existing_types = existing_types,
                   !.missing_relations = rels.missing_relations,
                   !.skipped_relations = rels.skipped_relations,
                   !.relation_name_to_id = rels.relation_name_to_id,
                   !.missing_types = typs.missing_types,
                   !.skipped_types = typs.skipped_types,
                   !.diff = OntologyDiff(rels.missing_relations,
                                         typs.missing_types,
                                         rels.skipped_relations,
                                         typs.skipped_types)],
        matched |-> rels.matched \cup typs.matched]

\* the branch on input.dry_run left out: every run goes on to Step 4
AfterDiff_ignores_dry_run(u) == NextCreation(u)

\* the branch on input.dry_run: report, or go on to Step 4
AfterDiff(u) ==
    IF u.input.dry_run
    THEN [run |-> [u EXCEPT !.pc = "returned",
                            !.result = EnsureOntologyOutput(u, TRUE)],
          call |-> NoCall]
    ELSE NextCreation(u)

\* the types fetch returned: the diff is built; a dry run returns, a real
\* run sends its first create request
FetchedTypes(r) ==
    /\ run[r].pc = "fetch_types"
    /\ call[r].state = "returned"
    /\ LET p == Plan(run[r], fetch_existing_types(call[r].response))
           n == AfterDiff(p.run)
       IN /\ run' = [run EXCEPT ![r] = n.run]
          /\ call' = [call EXCEPT ![r] = n.call]
          /\ bindings' = [bindings EXCEPT ![r] = @ \cup p.matched]
          /\ requests' = [requests EXCEPT ![r] = Logged(@, n.call)]
    /\ UNCHANGED <<backendVars, faults, similar, matching,
                 fleetVars>>

\* _create_relation returned and the name is put at the head of
\* created_relations
RecordCreatedRelation_prepends(u, rel_id) ==
    LET rel_def == u.missing_relations[Len(u.created_relations) + 1]
    IN [u EXCEPT !.pc = "sleep_relation",
                 !.relation_name_to_id = (Lower(rel_def.name) :> rel_id) @@ @,
                 !.created_relations = <<rel_def.name>> \o @]

\* _create_relation returned: the id is recorded, the name is appended
RecordCreatedRelation(u, rel_id) ==
    LET rel_def == u.missing_relations[Len(u.created_relations) + 1]
    IN [u EXCEPT !.pc = "sleep_relation",
                 !.relation_name_to_id = (Lower(rel_def.name) :> rel_id) @@ @,
                 !.created_relations = Append(@, rel_def.name)]

\* the loop of Step 4 without its sleep: the next create request is sent as
\* soon as _create_relation has returned
CreatedRelation_without_sleep(r) ==
    /\ run[r].pc = "create_relation"
    /\ call[r].state = "returned"
    /\ LET rel_def == run[r].missing_relations[Len(run[r].created_relations) + 1]
           rel_id == call[r].response.id
           n == NextCreation(RecordCreatedRelation(run[r], rel_id))
       IN /\ run' = [run EXCEPT ![r] = n.run]
          /\ call' = [call EXCEPT ![r] = n.call]
          /\ requests' = [requests EXCEPT ![r] = Logged(@, n.call)]
          /\ bindings' = [bindings EXCEPT ![r] =
                            @ \cup {[kind |-> "relation",
                                     name |-> Lower(rel_def.name),
                                     id |-> rel_id, how |-> "created"]}]
    /\ UNCHANGED <<backendVars, faults, similar, matching, fleetVars>>

CreatedRelation(r) ==
    /\ run[r].pc = "create_relation"
    /\ call[r].state = "returned"
    /\ LET rel_def == run[r].missing_relations[Len(run[r].created_relations) + 1]
           rel_id == call[r].response.id
       IN /\ run' = [run EXCEPT ![r] = RecordCreatedRelation(@, rel_id)]
          /\ bindings' = [bindings EXCEPT ![r] =
                            @ \cup {[kind |-> "relation",
                                     name |-> Lower(rel_def.name),
                                     id |-> rel_id, how |-> "created"]}]
    /\ call' = [call EXCEPT ![r] = NoCall]
    /\ UNCHANGED <<backendVars, requests, faults, similar, matching,
                 fleetVars>>

\* _create_type returned: the name is appended
RecordCreatedType(u) ==
    LET type_def == u.missing_types[Len(u.created_types) + 1]
    IN [u EXCEPT !.pc = "sleep_type",
                 !.created_types = Append(@, type_def.name)]

CreatedType(r) ==
    /\ run[r].pc = "create_type"
    /\ call[r].state = "returned"
    /\ LET type_def == run[r].missing_types[Len(run[r].created_types) + 1]
       IN /\ run' = [run EXCEPT ![r] = RecordCreatedType(@)]
          /\ bindings' = [bindings EXCEPT ![r] =
                            @ \cup {[kind |-> "type",
                                     name |-> Lower(type_def.name),
                                     id |-> call[r].response.id,
                                     how |-> "created"]}]
    /\ call' = [call EXCEPT ![r] = NoCall]
    /\ UNCHANGED <<backendVars, requests, faults, similar, matching,
                 fleetVars>>

\* asyncio.sleep(0.05) after a creation is over: the loop goes on
Slept(r) ==
    /\ run[r].pc \in {"sleep_relation", "sleep_type"}
    /\ LET n == NextCreation(run[r])
       IN /\ run' = [run EXCEPT ![r] = n.run]
          /\ call' = [call EXCEPT ![r] = n.call]
          /\ requests' = [requests EXCEPT ![r] = Logged(@, n.call)]
    /\ UNCHANGED <<backendVars, bindings, faults, similar, matching,
                 fleetVars>>

\* a handler around the creation that swallows the error: the loop goes on
Propagate_swallows_creation_error(u, error) ==
    IF u.pc = "create_relation" THEN [u EXCEPT !.pc = "sleep_relation"]
    ELSE IF u.pc = "create_type" THEN [u EXCEPT !.pc = "sleep_type"]
    ELSE [u EXCEPT !.pc = "raised", !.error = error]

\* a handler around the fetches that swallows their error: the run goes on
\* to the creations with the snapshot it has
Propagate_plans_without_snapshot(u, error) ==
    IF u.pc \in {"fetch_relations", "fetch_types"}
    THEN [u EXCEPT !.pc = "sleep_relation"]
    ELSE [u EXCEPT !.pc = "raised", !.error = error]

\* what ensure_ontology does with an error raised by a request: there is no
\* handler, the error leaves ensure_ontology and no result is returned
Propagate(u, error) == [u EXCEPT !.pc = "raised", !.error = error]

\* a request of the run raised
\* a run that answers a failed request by making it again
Raised_retries_request(r) ==
    /\ run[r].pc \in {"fetch_relations", "fetch_types",
                      "create_relation", "create_type"}
    /\ call[r].state = "raised"
    /\ call' = [call EXCEPT ![r] = NewCall(@.method, @.path, @.space_id,
                                           @.json)]
    /\ UNCHANGED <<backendVars, run, requests, bindings, faults, similar,
                   matching, fleetVars>>

Raised(r) ==
    /\ run[r].pc \in {"fetch_relations", "fetch_types",
                      "create_relation", "create_type"}
    /\ call[r].state = "raised"
    /\ run' = [run EXCEPT ![r] = Propagate(@, call[r].error)]
    /\ UNCHANGED <<backendVars, call, requests, bindings, faults, similar, matching,
                 fleetVars>>

(***************************************************************************)
(* Validation of the manifest (schemas/manifest.py) at the tool's entry    *)
(* (server/main.py)                                                        *)
(***************************************************************************)

\* name: str = Field(..., min_length=1, max_length=100)
NAME_MIN_LENGTH == 1

NAME_MAX_LENGTH == 100

\* a name field that has no minimum length
valid_name_accepts_empty(name) == Len(name) <= NAME_MAX_LENGTH

\* the constraints of the field name of RelationDefinition and TypeDefinition
valid_name(name) ==
    Len(name) >= NAME_MIN_LENGTH /\ Len(name) <= NAME_MAX_LENGTH

\* OntologyManifest(**manifest_data) raises no ValidationError
valid_manifest(manifest_data) ==
    /\ \A i \in DOMAIN manifest_data.relations :
          valid_name(manifest_data.relations[i].name)
    /\ \A i \in DOMAIN manifest_data.types :
          valid_name(manifest_data.types[i].name)

\* the entries a manifest document may hold, well-formed or with an empty
\* name
RawRelationDefinitions == {[name |-> nTag], [name |-> <<>>]}

RawTypeDefinitions ==
    { [name |-> ndocs, relations |-> <<ntags, ntag>>],
      [name |-> <<>>, relations |-> <<nTag>>] }

\* the manifest documents given to the tool
RawManifests ==
    {[relations |-> rs, types |-> ts] :
        rs \in SeqsUpTo(RawRelationDefinitions, MaxRels),
        ts \in SeqsUpTo(RawTypeDefinitions, MaxTypes)}

\* mcp_ensure_ontology and api_ensure_ontology: the manifest is validated;
\* a ValidationError is answered at once, and ensure_ontology is called
\* otherwise
McpEnsureOntology ==
    /\ run["r1"].pc = "idle"
    /\ \E space_id \in TargetSpaces, manifest_data \in RawManifests,
          dry_run \in BOOLEAN :
          LET input == [space_id |-> space_id, manifest |-> manifest_data,
                        dry_run |-> dry_run]
          IN IF valid_manifest(manifest_data)
             THEN ensure_ontology("r1", input)
             ELSE /\ run' = [run EXCEPT !["r1"] =
                               [IdleRun EXCEPT
                                  !.pc = "rejected", !.input = input,
                                  !.error = "ValidationError",
                                  !.start_relations = relations,
                                  !.start_types = types]]
                  /\ UNCHANGED <<backendVars, call, requests, bindings,
                                 faults, similar, matching, fleetVars>>

(***************************************************************************)
(* The matcher and the classification on their own                         *)
(***************************************************************************)

\* longest list of existing elements the matcher is given on its own
MaxExisting == 2

nStatus == <<"S","t","a","t","u","s">>
nstatus == <<"s","t","a","t","u","s">>
nStatuz == <<"S","t","a","t","u","z">>

\* the names the matcher is given on its own, declared or existing
MatchNames == {nTag, ntag, ntags, nStatus, nstatus, nStatuz}

\* the pairs of MatchNames with _fuzzy_match >= FUZZY_MATCH_THRESHOLD
MatchPairs ==
    {p \in {<<name1, name2>> : name1 \in MatchNames, name2 \in MatchNames} :
        AtLeastThreshold(fuzzy_match(p[1], p[2]))}

\* the lists of existing elements, in backend return order: the i-th has id i
ExistingLists ==
    {[i \in 1..Len(names) |-> [id |-> i, name |-> names[i]]] :
        names \in SeqsUpTo(MatchNames, MaxExisting)}

\* no use of the matcher on its own
NoMatching ==
    [pc |-> "none", name |-> <<>>, existing |-> <<>>,
     relation |-> <<>>, type |-> <<>>, diff |-> NoDiff]

\* _find_matching_relation(name, existing) and _find_matching_type(name,
\* existing) are called
FindMatching ==
    /\ matching.pc = "input"
    /\ matching' =
          [matching EXCEPT
             !.pc = "matched",
             !.relation = find_matching_relation(matching.name,
                                                 matching.existing),
             !.type = find_matching_type(matching.name, matching.existing)]
    /\ UNCHANGED <<backendVars, call, run, requests, bindings, faults,
                   similar, fleetVars>>

\* Steps 2 and 3 of ensure_ontology for a manifest that declares one
\* relation and one type of that name, over the same snapshot
Classify ==
    /\ matching.pc = "matched"
    /\ LET u == [IdleRun EXCEPT
                   !.input.manifest =
                       [relations |-> <<[name |-> matching.name]>>,
                        types |-> <<[name |-> matching.name,
                                     relations |-> <<>>]>>],
                   !.existing_relations = matching.existing]
       IN matching' = [matching EXCEPT
                         !.pc = "classified",
                         !.diff = Plan(u, matching.existing).run.diff]
    /\ UNCHANGED <<backendVars, call, run, requests, bindings, faults,
                   similar, fleetVars>>

(***************************************************************************)
(* Identity context (router/context.py) and profile switch                 *)
(* (tools/profile.py)                                                      *)
(***************************************************************************)

personal == <<"p", "e", "r", "s", "o", "n", "a", "l">>
work == <<"w", "o", "r", "k">>
research == <<"r", "e", "s", "e", "a", "r", "c", "h">>
WORK == <<"W", "O", "R", "K">>
bogus == <<"b", "o", "g", "u", "s">>

\* a profile_name argument that is None
NoName == <<>>

\* a session_id that is None
None == "None"

SessionIds == {None, "sess_123"}

\* the units of work (tasks, requests): each has its own copy of the context
Units == {"u1", "u2"}

\* valid_profiles in set_current_profile and validate_default_profile
valid_profiles == {personal, work, research}

\* a validator that stores whatever it is given
validate_default_profile_accepts_any(v) == v

\* Settings.validate_default_profile: the value stored, <<>> when rejected
validate_default_profile(v) ==
    IF Lower(v) \in valid_profiles THEN Lower(v) ELSE NoName

\* the Settings a process can start with
SettingsValues ==
    {[default_profile |-> validate_default_profile(v)] : v \in {personal, WORK}}

\* ProfileContext
ProfileContext(profile_name, session_id) ==
    [profile_name |-> profile_name, session_id |-> session_id]

\* the ContextVar's default, None
NoContext == [absent |-> TRUE]

\* get_current_profile, ctx being _current_profile.get()
get_current_profile(ctx) ==
    IF ctx = NoContext
    THEN ProfileContext(settings.default_profile, None)
    ELSE ctx

\* a ContextVar that is one global shared by every unit of work
ContextVar_set_global(values, u, ctx) == [v \in Units |-> ctx]

\* _current_profile.set(ctx) in unit u: the value of u's context only
ContextVar_set(values, u, ctx) == [values EXCEPT ![u] = ctx]

\* set_current_profile that stores the context before it validates the name
set_current_profile_stores_first(ctx, profile_name, session_id) ==
    LET name == Lower(profile_name)
        new == ProfileContext(name, session_id)
    IN IF name \notin valid_profiles
       THEN [error |-> "ValueError", value |-> new, result |-> NoContext]
       ELSE [error |-> "", value |-> new, result |-> new]

\* set_current_profile that stores the name as it was given
set_current_profile_keeps_case(ctx, profile_name, session_id) ==
    LET new == ProfileContext(profile_name, session_id)
    IN IF Lower(profile_name) \notin valid_profiles
       THEN [error |-> "ValueError", value |-> ctx, result |-> NoContext]
       ELSE [error |-> "", value |-> new, result |-> new]

\* set_current_profile, ctx being the unit's context value: the error raised,
\* the context value afterwards, the context returned
set_current_profile(ctx, profile_name, session_id) ==
    LET name == Lower(profile_name)
        new == ProfileContext(name, session_id)
    IN IF name \notin valid_profiles
       THEN [error |-> "ValueError", value |-> ctx, result |-> NoContext]
       ELSE [error |-> "", value |-> new, result |-> new]

\* reset_profile_context
reset_profile_context(ctx) == NoContext

\* SwitchProfileOutput
SwitchProfileOutput(previous_profile, current_profile_name) ==
    [previous_profile |-> previous_profile,
     current_profile |-> current_profile_name]

\* switch_profile that reads the previous profile after it has set the new
switch_profile_reads_previous_late(ctx, profile_name) ==
    LET set == set_current_profile(ctx, profile_name, None)
        previous == get_current_profile(set.value).profile_name
    IN IF set.error # ""
       THEN [error |-> set.error, value |-> set.value, result |-> NoContext]
       ELSE [error |-> "", value |-> set.value,
             result |-> SwitchProfileOutput(previous,
                                            set.result.profile_name)]

\* switch_profile, ctx being the unit's context value
switch_profile(ctx, profile_name) ==
    LET previous == get_current_profile(ctx).profile_name
        set == set_current_profile(ctx, profile_name, None)
    IN IF set.error # ""
       THEN [error |-> set.error, value |-> set.value, result |-> NoContext]
       ELSE [error |-> "", value |-> set.value,
             result |-> SwitchProfileOutput(previous,
                                            set.result.profile_name)]

(***************************************************************************)
(* FleetRouter's clients, client resolution and health check               *)
(* (router/fleet.py)                                                       *)
(***************************************************************************)

\* Settings.get_fleet_config: the configured profiles, in the dict's order
fleet_config == <<personal, work, research>>

\* FleetRouter._init_clients: a client for every configured profile
init_clients(cs) == cs \cup {fleet_config[i] : i \in DOMAIN fleet_config}

\* FleetRouter.close: every client closed, the dict cleared
close(cs) == {}

\* list(self._clients.keys())
client_keys(cs) == SelectSeq(fleet_config, LAMBDA name : name \in cs)

\* _get_client that takes the context's profile before the override
get_client_prefers_context(cs, profile_name, ctx) ==
    LET name == Lower(IF ctx # NoContext THEN ctx.profile_name
                      ELSE IF profile_name # NoName THEN profile_name
                      ELSE get_current_profile(ctx).profile_name)
    IN [error |-> IF name \in cs THEN "" ELSE "ValueError", client |-> name]

\* FleetRouter._get_client, ctx being the calling unit's context value: the
\* error raised and the name of the client returned
get_client(cs, profile_name, ctx) ==
    LET name == Lower(IF profile_name # NoName THEN profile_name
                      ELSE get_current_profile(ctx).profile_name)
    IN [error |-> IF name \in cs THEN "" ELSE "ValueError", client |-> name]

\* the body of a 2xx response: none, a JSON document, not a JSON document
ResponseBodies == {"empty", "json", "invalid"}

\* what a unit of work has done last, and the request it made last
IdleUnit ==
    [op |-> "none", arg |-> NoName, session_id |-> None, error |-> "",
     result |-> NoContext,
     installed |-> NoContext,  \* history: the context of the last set, if
                               \* no reset followed
     req |-> NoCall, override |-> NoName,
     dispatched |-> <<>>,      \* history: the client of each attempt
     following |-> NoName]     \* history: session when the request was made

\* the names given to set_current_profile and switch_profile
SetNames == {personal, WORK, research, bogus}

\* the profile_name given to a request
Overrides == {NoName, WORK, bogus}

\* the units of work whose requests are followed
Requesters == {"u2"}

Awaiting(u) == unit[u].req.state = "active"

\* unit u calls get_current_profile
GetProfile(u) ==
    /\ ~Awaiting(u)
    /\ unit' = [unit EXCEPT ![u] =
                  [IdleUnit EXCEPT
                     !.op = "get",
                     !.result = get_current_profile(current_profile[u]),
                     !.installed = unit[u].installed]]
    /\ UNCHANGED <<ontologyVars, settings, clients, orphans, closed,
                   current_profile, health,
                   session>>

\* unit u calls set_current_profile
SetProfile(u) ==
    /\ ~Awaiting(u)
    /\ \E profile_name \in SetNames, session_id \in SessionIds :
         LET set == set_current_profile(current_profile[u], profile_name,
                                        session_id)
         IN /\ current_profile' = ContextVar_set(current_profile, u, set.value)
            /\ unit' = [unit EXCEPT ![u] =
                  [IdleUnit EXCEPT
                     !.op = "set", !.arg = profile_name,
                     !.session_id = session_id, !.error = set.error,
                     !.result = set.result,
                     !.installed =
                         IF set.error = ""
                         THEN ProfileContext(Lower(profile_name), session_id)
                         ELSE unit[u].installed]]
    /\ UNCHANGED <<ontologyVars, settings, clients, orphans, closed, health,
                   session>>

\* unit u calls reset_profile_context
ResetProfile(u) ==
    /\ ~Awaiting(u)
    /\ current_profile' = ContextVar_set(current_profile, u,
                               reset_profile_context(current_profile[u]))
    /\ unit' = [unit EXCEPT ![u] = [IdleUnit EXCEPT !.op = "reset"]]
    /\ session' = NoName
    /\ UNCHANGED <<ontologyVars, settings, clients, orphans, closed, health>>

\* unit u calls switch_profile
SwitchProfile(u) ==
    /\ ~Awaiting(u)
    /\ \E profile_name \in SetNames :
         LET sw == switch_profile(current_profile[u], profile_name)
         IN /\ current_profile' = ContextVar_set(current_profile, u, sw.value)
            /\ unit' = [unit EXCEPT ![u] =
                  [IdleUnit EXCEPT
                     !.op = "switch_profile", !.arg = profile_name,
                     !.error = sw.error, !.result = sw.result,
                     !.installed =
                         IF sw.error = ""
                         THEN ProfileContext(Lower(profile_name), None)
                         ELSE unit[u].installed]]
            /\ session' = IF sw.error = "" THEN Lower(profile_name)
                          ELSE session
    /\ UNCHANGED <<ontologyVars, settings, clients, orphans, closed, health>>

\* unit u hands a request to FleetRouter.request, as a tool call does
Request(u) ==
    /\ ~Awaiting(u)
    /\ \E profile_name \in Overrides :
         unit' = [unit EXCEPT ![u] =
                  [IdleUnit EXCEPT
                     !.op = "request",
                     !.installed = unit[u].installed,
                     !.req = NewCall("GET", "spaces", "", NoJson),
                     !.override = profile_name,
                     !.following = session]]
    /\ UNCHANGED <<ontologyVars, settings, clients, orphans, closed,
                   current_profile, health,
                   session>>

\* the connection failures and timeouts among the attempts of a request
TransientFailures(req) ==
    Cardinality({i \in DOMAIN req.attempts :
                    retry_if_exception_type(req.attempts[i])})

\* a request that drops the client of a profile whose attempt met a
\* connection failure or a timeout
RouterAttempt_evicts_client(u) ==
    /\ Awaiting(u)
    /\ LET got == get_client(clients, unit[u].override, current_profile[u])
       IN IF got.error # ""
          THEN /\ unit' = [unit EXCEPT ![u].req.state = "raised",
                                       ![u].req.error = got.error]
               /\ clients' = clients
          ELSE \E outcome \in Outcomes :
                 /\ retry_if_exception_type(outcome) =>
                        TransientFailures(unit[u].req) < MaxDispatchFaults
                 /\ unit' = [unit EXCEPT
                               ![u].req = AfterAttempt(@, outcome, <<>>),
                               ![u].dispatched = Append(@, got.client)]
                 /\ clients' = IF retry_if_exception_type(outcome)
                               THEN clients \ {got.client}
                               ELSE clients
    /\ UNCHANGED <<ontologyVars, settings, orphans, closed, current_profile,
                   health,
                   session>>

\* the request of unit u is in its retry wait: an attempt failed and the
\* next one has not been made
InBackoff(u) ==
    /\ unit[u].req.state = "active"
    /\ Len(unit[u].req.attempts) > 0
    /\ Len(unit[u].req.waits) = Len(unit[u].req.attempts)

\* a retry wait that holds the scheduler (time.sleep): no request is
\* dispatched while another one waits
RouterAttempt_blocking_wait(u) ==
    /\ Awaiting(u)
    /\ \A v \in Units \ {u} : ~InBackoff(v)
    /\ LET got == get_client(clients, unit[u].override, current_profile[u])
       IN IF got.error # ""
          THEN unit' = [unit EXCEPT ![u].req.state = "raised",
                                    ![u].req.error = got.error]
          ELSE \E outcome \in Outcomes :
                 /\ retry_if_exception_type(outcome) =>
                        TransientFailures(unit[u].req) < MaxDispatchFaults
                 /\ unit' = [unit EXCEPT
                               ![u].req = AfterAttempt(@, outcome, <<>>),
                               ![u].dispatched = Append(@, got.client)]
    /\ UNCHANGED <<ontologyVars, settings, clients, orphans, closed,
                   current_profile, health,
                   session>>

\* one pass of the retried body of FleetRouter.request for unit u:
\* _get_client, then client.request and raise_for_status.  A client that
\* close has closed and that is still in _clients is returned by
\* _get_client, and its request raises RuntimeError, which is not retried.
RouterAttempt(u) ==
    /\ Awaiting(u)
    /\ LET got == get_client(clients, unit[u].override, current_profile[u])
       IN IF got.error # ""
          THEN unit' = [unit EXCEPT ![u].req.state = "raised",
                                    ![u].req.error = got.error]
          ELSE IF got.client \in closed
          THEN unit' = [unit EXCEPT
                          ![u].req.state = "raised",
                          ![u].req.error = "RuntimeError",
                          ![u].req.attempts = Append(@, "RuntimeError"),
                          ![u].dispatched = Append(@, got.client)]
          ELSE \E outcome \in Outcomes :
                 /\ retry_if_exception_type(outcome) =>
                        TransientFailures(unit[u].req) < MaxDispatchFaults
                 /\ unit' = [unit EXCEPT
                               ![u].req = AfterAttempt(@, outcome, <<>>),
                               ![u].dispatched = Append(@, got.client)]
    /\ UNCHANGED <<ontologyVars, settings, clients, orphans, closed,
                   current_profile, health, session>>

\* FleetRouter._init_clients run with clients cs and orphans os: every
\* client it finds in _clients is overwritten by a new one and not closed
orphaned_by_init(cs, os) ==
    os \cup ((cs \ closed) \cap {fleet_config[i] : i \in DOMAIN fleet_config})

\* FleetRouter.close closes the clients of _clients and no other
orphaned_by_close(cs, os) == os

\* the router's clients are initialized
InitClients ==
    /\ clients' = init_clients(clients)
    /\ orphans' = orphaned_by_init(clients, orphans)
    /\ closed' = closed \ init_clients(clients)
    /\ UNCHANGED <<ontologyVars, settings, current_profile, unit, health, session>>

\* the router is closed
Close ==
    /\ clients' = close(clients)
    /\ orphans' = orphaned_by_close(clients, orphans)
    /\ closed' = {}
    /\ UNCHANGED <<ontologyVars, settings, current_profile, unit, health, session>>

\* one pass of the loop of FleetRouter.close: the next client of _clients,
\* in the dict's order, is closed and stays in _clients
CloseClient ==
    /\ clients \ closed # {}
    /\ LET open == SelectSeq(client_keys(clients),
                             LAMBDA name : name \notin closed)
       IN closed' = closed \cup {Head(open)}
    /\ UNCHANGED <<ontologyVars, settings, clients, orphans, current_profile,
                   unit, health, session>>

\* the loop of FleetRouter.close is over: _clients.clear()
ClearClients ==
    /\ clients # {}
    /\ clients \subseteq closed
    /\ clients' = {}
    /\ closed' = {}
    /\ UNCHANGED <<ontologyVars, settings, orphans, current_profile, unit,
                   health, session>>

\* FleetRouter.health_check between two profiles
IdleHealth ==
    [state |-> "idle", profile_name |-> NoName, profiles |-> <<>>,
     results |-> <<>>,
     keys |-> {},         \* history: the clients when it was called
     outcomes |-> <<>>,   \* history: how each profile's request ended
     req |-> NoCall]

\* the profile_name given to health_check
HealthNames == {NoName, WORK, bogus}

\* results[name] = entry
Put(results, name, entry) ==
    [n \in DOMAIN results \cup {name} |->
        IF n = name THEN entry ELSE results[n]]

\* the entry health_check stores for a request that ended as req
health_entry(req) ==
    IF req.state = "returned"
    THEN IF req.response = "invalid"
         THEN [status |-> "unhealthy", error |-> "JSONDecodeError"]
         ELSE [status |-> "healthy", response |-> req.response]
    ELSE [status |-> "unhealthy", error |-> req.error]

\* the loop of health_check with the request of the next profile, or its end
NextHealthRequest(h) ==
    IF Cardinality(DOMAIN h.results) < Len(h.profiles)
    THEN [h EXCEPT !.req = NewCall("GET", "health", "", NoJson)]
    ELSE [h EXCEPT !.state = "returned", !.req = NoCall]

\* health_check that leaves its loop at the first profile that fails
AfterHealthRequest_stops_at_failure(h, name) ==
    IF health_entry(h.req).status = "healthy"
    THEN NextHealthRequest([h EXCEPT
                              !.results = Put(@, name, health_entry(h.req))])
    ELSE [h EXCEPT !.results = Put(@, name, health_entry(h.req)),
                   !.state = "returned", !.req = NoCall]

\* health_check that catches httpx errors only
AfterHealthRequest_catches_http_only(h, name) ==
    IF h.req.state = "raised" /\ h.req.error = "ValueError"
    THEN [h EXCEPT !.state = "raised", !.req = NoCall]
    ELSE NextHealthRequest([h EXCEPT
                              !.results = Put(@, name, health_entry(h.req))])

\* health_check after self.get for profile name returned or raised: the
\* entry is stored and the loop goes on
AfterHealthRequest(h, name) ==
    NextHealthRequest([h EXCEPT !.results = Put(@, name, health_entry(h.req))])

\* health_check is called
HealthCheck ==
    /\ health.state # "checking"
    /\ \E profile_name \in HealthNames :
         LET profiles == IF profile_name # NoName
                         THEN <<Lower(profile_name)>>
                         ELSE client_keys(clients)
         IN health' = NextHealthRequest(
                          [IdleHealth EXCEPT !.state = "checking",
                                             !.profile_name = profile_name,
                                             !.keys = clients,
                                             !.profiles = profiles])
    /\ UNCHANGED <<ontologyVars, settings, clients, orphans, closed,
                   current_profile, unit, session>>

\* the profile health_check is at
HealthProfile ==
    health.profiles[Cardinality(DOMAIN health.results) + 1]

\* one pass of the retried body of FleetRouter.request for health_check's
\* self.get("/v1/health", profile_name=name)
HealthAttempt ==
    /\ health.state = "checking"
    /\ health.req.state = "active"
    /\ LET got == get_client(clients, HealthProfile, NoContext)
           ended(req) ==
               IF req.state = "active" THEN health.outcomes
               ELSE Append(health.outcomes,
                           [name |-> HealthProfile, state |-> req.state,
                            error |-> req.error, response |-> req.response])
       IN IF got.error # ""
          THEN LET req == [health.req EXCEPT !.state = "raised",
                                             !.error = got.error]
               IN health' = [health EXCEPT !.req = req,
                                           !.outcomes = ended(req)]
          ELSE \E outcome \in Outcomes, body \in ResponseBodies :
                 LET req == AfterAttempt(health.req, outcome,
                                IF outcome = "ok" THEN body ELSE <<>>)
                 IN health' = [health EXCEPT !.req = req,
                                             !.outcomes = ended(req)]
    /\ UNCHANGED <<ontologyVars, settings, clients, orphans, closed,
                   current_profile, unit, session>>

\* health_check stores the entry of the profile whose request ended
HealthRecorded ==
    /\ health.state = "checking"
    /\ health.req.state \in {"returned", "raised"}
    /\ health' = AfterHealthRequest(health, HealthProfile)
    /\ UNCHANGED <<ontologyVars, settings, clients, orphans, closed,
                   current_profile, unit, session>>

(***************************************************************************)
(* Specification                                                           *)
(***************************************************************************)

\* the backend, the runs and their histories before any call
InitOntology ==
    /\ call = [r \in RunIds |-> NoCall]
    /\ run = [r \in RunIds |-> IdleRun]
    /\ requests = [r \in RunIds |-> <<>>]
    /\ bindings = [r \in RunIds |-> {}]
    /\ faults = 0
    /\ similar = SimilarPairs
    /\ matching = NoMatching

\* every unit of work starts without a context of its own
InitContext ==
    /\ settings \in SettingsValues
    /\ current_profile = [u \in Units |-> NoContext]
    /\ unit = [u \in Units |-> IdleUnit]
    /\ health = IdleHealth
    /\ session = NoName

Init ==
    /\ \E b \in InitialBackends :
         /\ relations = b.relations
         /\ types = b.types
         /\ next_id = b.used + 1
    /\ InitOntology
    /\ settings = [default_profile |-> personal]
    /\ clients = init_clients({})
    /\ orphans = {}
    /\ closed = {}
    /\ current_profile = [u \in Units |-> NoContext]
    /\ unit = [u \in Units |-> IdleUnit]
    /\ health = IdleHealth
    /\ session = NoName

\* one call of ensure_ontology
Next ==
    \/ FirstCall
    \/ RequestAttempt("r1")
    \/ FetchedRelations("r1")
    \/ FetchedTypes("r1")
    \/ CreatedRelation("r1")
    \/ CreatedType("r1")
    \/ Slept("r1")
    \/ Raised("r1")

Spec == Init /\ [][Next]_vars

\* one call of ensure_ontology whose every transport attempt may fail
NextLive ==
    \/ FirstCall
    \/ UnboundedAttempt("r1")
    \/ FetchedRelations("r1")
    \/ FetchedTypes("r1")
    \/ CreatedRelation("r1")
    \/ CreatedType("r1")
    \/ Slept("r1")
    \/ Raised("r1")

\* the condition under which FetchedTypes(r) can take place
CanPlan(r) == run[r].pc = "fetch_types" /\ call[r].state = "returned"

\* every transport attempt ends, with a response or an error, the sleep
\* after a creation ends and the run goes on when it can.  The weak
\* fairness of FetchedTypes is written out, with CanPlan for its ENABLED.
SpecLive ==
    /\ Init
    /\ [][NextLive]_vars
    /\ WF_vars(UnboundedAttempt("r1"))
    /\ WF_vars(FetchedRelations("r1"))
    /\ \/ []<>~CanPlan("r1")
       \/ []<><<FetchedTypes("r1")>>_vars
    /\ WF_vars(CreatedRelation("r1"))
    /\ WF_vars(CreatedType("r1"))
    /\ WF_vars(Slept("r1"))
    /\ WF_vars(Raised("r1"))

\* two calls of ensure_ontology, one after the other
NextRepeat ==
    \/ FirstCall
    \/ SecondCall
    \/ \E r \in RunIds :
         \/ RepeatRequestAttempt(r)
         \/ FetchedRelations(r)
         \/ FetchedTypes(r)
         \/ CreatedRelation(r)
         \/ CreatedType(r)
         \/ Slept(r)
         \/ Raised(r)

SpecRepeat == Init /\ [][NextRepeat]_vars

\* a router just constructed, over an empty backend
InitFleet ==
    /\ relations = <<>>
    /\ types = <<>>
    /\ next_id = 1
    /\ InitOntology
    /\ InitContext
    /\ clients = {}
    /\ orphans = {}
    /\ closed = {}

\* units of work that read and change their identity context, while the
\* router is initialized and closed
NextContext ==
    \/ \E u \in Units :
         \/ GetProfile(u)
         \/ SetProfile(u)
         \/ ResetProfile(u)
         \/ SwitchProfile(u)
    \/ InitClients
    \/ Close

SpecContext == InitFleet /\ [][NextContext]_vars

\* a router just constructed, with the default settings
InitDispatch ==
    /\ InitFleet
    /\ settings.default_profile = personal

\* units of work that switch profile, and the requests of one of them,
\* while the router is initialized and closed
NextDispatch ==
    \/ \E u \in Units :
         \/ SwitchProfile(u)
         \/ ResetProfile(u)
    \/ \E u \in Requesters :
         \/ Request(u)
         \/ RouterAttempt(u)
    \/ InitClients
    \/ Close

SpecDispatch == InitDispatch /\ [][NextDispatch]_vars

\* health checks, while the router is initialized and closed
NextHealth ==
    \/ HealthCheck
    \/ HealthAttempt
    \/ HealthRecorded
    \/ InitClients
    \/ Close

SpecHealth == InitFleet /\ [][NextHealth]_vars

\* requests and health checks, while the router is initialized and closed
NextSteady ==
    \/ \E u \in Requesters :
         \/ Request(u)
         \/ RouterAttempt(u)
    \/ HealthCheck
    \/ HealthAttempt
    \/ HealthRecorded
    \/ InitClients
    \/ Close

SpecSteady == InitDispatch /\ [][NextSteady]_vars

\* the first unit makes a request
FirstRequest == Request("u1")

\* the second unit makes a request while the request of the first is in
\* its retry wait
RequestDuringBackoff ==
    /\ InBackoff("u1")
    /\ Request("u2")

\* two units of work whose requests share the router's clients
NextBackoff ==
    \/ InitClients
    \/ FirstRequest
    \/ RequestDuringBackoff
    \/ \E u \in Units : RouterAttempt(u)

SpecBackoff == InitDispatch /\ [][NextBackoff]_vars

\* the requests of two units of work while the router is initialized and
\* close closes its clients one after the other
NextShutdown ==
    \/ InitClients
    \/ CloseClient
    \/ ClearClients
    \/ \E u \in Units :
         \/ Request(u)
         \/ RouterAttempt(u)

SpecShutdown == InitDispatch /\ [][NextShutdown]_vars

\* two calls of ensure_ontology under way at once
NextRace ==
    \/ FirstCall
    \/ ConcurrentCall
    \/ \E r \in RunIds :
         \/ RepeatRequestAttempt(r)
         \/ FetchedRelations(r)
         \/ FetchedTypes(r)
         \/ CreatedRelation(r)
         \/ CreatedType(r)
         \/ Slept(r)
         \/ Raised(r)

SpecRace == Init /\ [][NextRace]_vars

\* one call of the tool, with a manifest document of any content
NextValidate ==
    \/ McpEnsureOntology
    \/ RequestAttempt("r1")
    \/ FetchedRelations("r1")
    \/ FetchedTypes("r1")
    \/ CreatedRelation("r1")
    \/ CreatedType("r1")
    \/ Slept("r1")
    \/ Raised("r1")

SpecValidate == Init /\ [][NextValidate]_vars

\* a declared name and a list of existing elements are given to the matcher
InitMatch ==
    /\ similar = MatchPairs
    /\ relations = <<>>
    /\ types = <<>>
    /\ next_id = 1
    /\ call = [r \in RunIds |-> NoCall]
    /\ run = [r \in RunIds |-> IdleRun]
    /\ requests = [r \in RunIds |-> <<>>]
    /\ bindings = [r \in RunIds |-> {}]
    /\ faults = 0
    /\ \E name \in MatchNames, existing \in ExistingLists :
          matching = [NoMatching EXCEPT !.pc = "input", !.name = name,
                                        !.existing = existing]
    /\ settings = [default_profile |-> personal]
    /\ clients = {}
    /\ orphans = {}
    /\ closed = {}
    /\ current_profile = [u \in Units |-> NoContext]
    /\ unit = [u \in Units |-> IdleUnit]
    /\ health = IdleHealth
    /\ session = NoName

\* the matcher, then the classification
NextMatch ==
    \/ FindMatching
    \/ Classify

SpecMatch == InitMatch /\ [][NextMatch]_vars

\* manifests whose entries are similar to one another or not
PartitionManifests ==
    {[relations |-> rs, types |-> ts] :
        rs \in SeqsUpTo({[name |-> n] : n \in {nTag, ntags, nStatus}},
                        MaxPartitionRels),
        ts \in SeqsUpTo({[name |-> n, relations |-> <<nStatus>>] :
                            n \in {nTag, nStatus}},
                        MaxPartitionTypes)}

\* backends whose target space holds none, one or two of the relations and
\* none or one of the types
PartitionBackends ==
    {[relations |-> rs, types |-> ts] :
        rs \in { <<>>,
                 <<[id |-> 1, spaceId |-> "s1", name |-> ntag]>>,
                 <<[id |-> 1, spaceId |-> "s1", name |-> nstatus],
                   [id |-> 2, spaceId |-> "s1", name |-> ntag]>> },
        ts \in { <<>>,
                 <<[id |-> 3, spaceId |-> "s1", name |-> nstatus,
                    recommendedRelations |-> <<>>]>> }}

InitPartition ==
    /\ \E b \in PartitionBackends :
         /\ relations = b.relations
         /\ types = b.types
    /\ next_id = 4
    /\ call = [r \in RunIds |-> NoCall]
    /\ run = [r \in RunIds |-> IdleRun]
    /\ requests = [r \in RunIds |-> <<>>]
    /\ bindings = [r \in RunIds |-> {}]
    /\ faults = 0
    /\ similar = MatchPairs
    /\ matching = NoMatching
    /\ settings = [default_profile |-> personal]
    /\ clients = init_clients({})
    /\ orphans = {}
    /\ closed = {}
    /\ current_profile = [u \in Units |-> NoContext]
    /\ unit = [u \in Units |-> IdleUnit]
    /\ health = IdleHealth
    /\ session = NoName

\* one call, dry or not, with one of these manifests
PartitionCall ==
    /\ run["r1"].pc = "idle"
    /\ \E m \in PartitionManifests, d \in BOOLEAN :
         ensure_ontology("r1", [space_id |-> "s1", manifest |-> m,
                                dry_run |-> d])

\* a transport attempt that meets no failure
PlainRequestAttempt(r) == Attempt(r, 0)

\* one call of ensure_ontology over a backend that answers every request
NextPartition ==
    \/ PartitionCall
    \/ PlainRequestAttempt("r1")
    \/ FetchedRelations("r1")
    \/ FetchedTypes("r1")
    \/ CreatedRelation("r1")
    \/ CreatedType("r1")
    \/ Slept("r1")

SpecPartition == InitPartition /\ [][NextPartition]_vars

(***************************************************************************)
(* Properties                                                              *)
(***************************************************************************)

IsCreate(req) == req.method = "POST"

IsPost(req, path) == req.method = "POST" /\ req.path = path

\* the requests of unit r that are creations of path, in order
Posts(r, path) == SelectSeq(requests[r], LAMBDA req : IsPost(req, path))

DeclaredRelationNames(r) == Names(run[r].input.manifest.relations)

DeclaredTypeNames(r) == Names(run[r].input.manifest.types)

\* C1: after a successful real run, the identical call that follows issues
\* no create request, returns empty created lists, and its diff lists every
\* declared relation and type as existing.
C1_Idempotence ==
    ( /\ run["r1"].pc = "returned"
      /\ ~run["r1"].input.dry_run
      /\ run["r2"].pc # "idle"
      /\ run["r2"].input = run["r1"].input )
    => /\ \A i \in DOMAIN requests["r2"] : ~IsCreate(requests["r2"][i])
       /\ run["r2"].pc = "returned" =>
            /\ run["r2"].result.created_relations = <<>>
            /\ run["r2"].result.created_types = <<>>
            /\ run["r2"].result.diff.missing_relations = <<>>
            /\ run["r2"].result.diff.missing_types = <<>>
            /\ run["r2"].result.diff.existing_relations
                   = DeclaredRelationNames("r2")
            /\ run["r2"].result.diff.existing_types = DeclaredTypeNames("r2")

\* a real run created relations and a type, and the identical call after it
\* has returned
C1_Witness ==
    /\ run["r1"].pc = "returned"
    /\ ~run["r1"].input.dry_run
    /\ Len(run["r1"].result.created_relations) = MaxRels
    /\ run["r1"].result.created_types # <<>>
    /\ run["r2"].pc = "returned"
    /\ run["r2"].input = run["r1"].input

\* C2: in one run, once a type-creation request has been issued, every
\* relation creation of the run has completed and no relation-creation
\* request follows.
C2_RelationsBeforeTypes ==
    \A r \in RunIds :
        \A i \in DOMAIN requests[r] :
            IsPost(requests[r][i], "types") =>
                /\ Len(run[r].created_relations) = Len(run[r].missing_relations)
                /\ Len(Posts(r, "relations")) = Len(run[r].missing_relations)
                /\ \A j \in DOMAIN requests[r] :
                       IsPost(requests[r][j], "relations") => j < i
                /\ ~(call[r].state = "active" /\ IsPost(call[r], "relations"))

\* a run has posted two relations and then a type
C2_Witness ==
    \E r \in RunIds :
        /\ Len(Posts(r, "relations")) = MaxRels
        /\ Len(Posts(r, "types")) >= 1

\* C3: a dry run issues no create request, leaves the backend's relations
\* and types as they were when it started, and returns empty created lists.
C3_DryRunPurity ==
    \A r \in RunIds :
        (run[r].pc # "idle" /\ run[r].input.dry_run) =>
            /\ \A i \in DOMAIN requests[r] : ~IsCreate(requests[r][i])
            /\ relations = run[r].start_relations
            /\ types = run[r].start_types
            /\ run[r].pc = "returned" =>
                 /\ run[r].result.created_relations = <<>>
                 /\ run[r].result.created_types = <<>>
                 /\ run[r].result.dry_run

\* a dry run has returned with two missing relations and a missing type
C3_Witness ==
    \E r \in RunIds :
        /\ run[r].pc = "returned"
        /\ run[r].input.dry_run
        /\ Len(run[r].result.diff.missing_relations) = MaxRels
        /\ Len(run[r].result.diff.missing_types) = 1

\* C4: the missing lists a dry run reports are the created lists of the
\* successful real run of the same manifest on the same space that follows.
C4_DryRunPredicts ==
    ( /\ run["r1"].pc = "returned"
      /\ run["r1"].input.dry_run
      /\ run["r2"].pc = "returned"
      /\ ~run["r2"].input.dry_run
      /\ run["r2"].input.manifest = run["r1"].input.manifest
      /\ run["r2"].input.space_id = run["r1"].input.space_id )
    => /\ run["r1"].result.diff.missing_relations
              = run["r2"].result.created_relations
       /\ run["r1"].result.diff.missing_types
              = run["r2"].result.created_types

\* a dry run reported missing relations and a missing type, and the real run
\* after it has returned
C4_Witness ==
    /\ run["r1"].pc = "returned"
    /\ run["r1"].input.dry_run
    /\ Len(run["r1"].result.diff.missing_relations) = MaxRels
    /\ run["r1"].result.diff.missing_types # <<>>
    /\ run["r2"].pc = "returned"
    /\ ~run["r2"].input.dry_run

Transient == {"ConnectError", "TimeoutException"}

\* the relation references of a type definition that name a declared relation
DeclaredReferences(r, type_def) ==
    LET rels == run[r].input.manifest.relations
        declared == {Lower(rels[i].name) : i \in DOMAIN rels}
    IN SelectSeq(type_def.relations, LAMBDA n : Lower(n) \in declared)

\* C5: within one run each declared name, taken up to case, is bound to at
\* most one identifier, matched or created.
C5_OneResolutionPerName ==
    \A r \in RunIds :
        \A b1 \in bindings[r] :
            \A b2 \in bindings[r] :
                (b1.kind = b2.kind /\ b1.name = b2.name) => b1.id = b2.id

\* C6: the k-th type-creation request of a run is for the k-th missing type;
\* its recommendedRelations holds, in order, one id per reference that names
\* a declared relation, each the id bound to that name and of a relation in
\* the backend, and nothing for the other references; a run that met no
\* request failure has not raised, and a returned real run has created every
\* missing type.
C6_UnresolvedReferenceTolerance ==
    \A r \in RunIds :
        /\ \A k \in DOMAIN Posts(r, "types") :
              LET req == Posts(r, "types")[k]
                  type_def == run[r].missing_types[k]
                  resolved == DeclaredReferences(r, type_def)
                  ids == req.json.recommendedRelations
              IN /\ req.json.name = type_def.name
                 /\ Len(ids) = Len(resolved)
                 /\ \A j \in DOMAIN ids :
                       /\ \E b \in bindings[r] :
                             /\ b.kind = "relation"
                             /\ b.name = Lower(resolved[j])
                             /\ b.id = ids[j]
                       /\ \E i \in DOMAIN relations :
                             /\ relations[i].id = ids[j]
                             /\ relations[i].spaceId = run[r].input.space_id
        /\ faults = 0 => run[r].pc # "raised"
        /\ (run[r].pc = "returned" /\ ~run[r].input.dry_run) =>
              /\ run[r].created_types = Names(run[r].missing_types)
              /\ \A k \in DOMAIN run[r].missing_types :
                    \E i \in DOMAIN types :
                        /\ types[i].name = run[r].missing_types[k].name
                        /\ types[i].spaceId = run[r].input.space_id
                        /\ types[i].recommendedRelations
                               = Posts(r, "types")[k].json.recommendedRelations

\* a real run has returned after it created a type with two references, one
\* that resolved and one that names no declared relation
C6_Witness ==
    \E r \in RunIds :
        /\ run[r].pc = "returned"
        /\ ~run[r].input.dry_run
        /\ Len(run[r].created_types) = 1
        /\ Len(run[r].missing_types[1].relations) = 2
        /\ Len(Posts(r, "types")[1].json.recommendedRelations) = 1

\* C7: a failed request is followed by nothing but the end of the run with
\* that error; in a run that a failed create request ended, that request is
\* the last one issued, no request deletes or updates, and every element the
\* run created is still in the backend.
C7_PartialApplication ==
    \A r \in RunIds :
        /\ call[r].state = "raised" =>
              run[r].pc \in {"fetch_relations", "fetch_types",
                             "create_relation", "create_type", "raised"}
        /\ run[r].pc = "raised" =>
              /\ call[r].state = "raised"
              /\ run[r].error = call[r].error
              /\ requests[r] # <<>>
              /\ requests[r][Len(requests[r])]
                    = [method |-> call[r].method, path |-> call[r].path,
                       json |-> call[r].json]
              /\ \A i \in DOMAIN requests[r] :
                    requests[r][i].method \in {"GET", "POST"}
              /\ \A b \in bindings[r] :
                    b.how = "created" =>
                        \/ /\ b.kind = "relation"
                           /\ \E i \in DOMAIN relations :
                                 /\ relations[i].id = b.id
                                 /\ Lower(relations[i].name) = b.name
                        \/ /\ b.kind = "type"
                           /\ \E i \in DOMAIN types :
                                 /\ types[i].id = b.id
                                 /\ Lower(types[i].name) = b.name

\* a create request failed after the run had created a relation
C7_Witness ==
    \E r \in RunIds :
        /\ run[r].pc = "raised"
        /\ IsCreate(call[r])
        /\ \E b \in bindings[r] : b.how = "created"

\* C8: when a creation fails after earlier creations succeeded, the caller
\* receives, with the error, a result that names what was created.
C8_PartialResultSurfaced ==
    \A r \in RunIds :
        ( /\ run[r].pc = "raised"
          /\ IsCreate(call[r])
          /\ run[r].created_relations # <<>> )
        => /\ run[r].result # NoResult
           /\ run[r].result.created_relations = run[r].created_relations
           /\ run[r].result.created_types = run[r].created_types

\* C9: a call makes at most three attempts, every attempt before the last
\* failed with a connection failure or a timeout, a success is the last
\* attempt and is what the call returns, and a call that returned leaves the
\* run unraised.
C9_RetryBudget ==
    \A r \in RunIds :
        LET attempts == call[r].attempts
        IN /\ Len(attempts) <= STOP_AFTER_ATTEMPT
           /\ \A i \in 1..(Len(attempts) - 1) : attempts[i] \in Transient
           /\ call[r].state = "returned" <=>
                 (attempts # <<>> /\ attempts[Len(attempts)] = "ok")
           /\ call[r].state = "returned" => run[r].pc # "raised"
           /\ call[r].state = "active" =>
                 /\ Len(attempts) < STOP_AFTER_ATTEMPT
                 /\ \A i \in DOMAIN attempts : attempts[i] \in Transient

\* a call returned on its third attempt, after a connection failure and a
\* timeout
C9_Witness ==
    \E r \in RunIds :
        /\ call[r].state = "returned"
        /\ call[r].attempts = <<"ConnectError", "TimeoutException", "ok">>

\* C10: an attempt answered with an error status is the last attempt of its
\* call, and the call raises that error; when the first attempt is answered
\* so, the call made exactly one attempt.
C10_StatusNeverRetried ==
    \A r \in RunIds :
        LET attempts == call[r].attempts
        IN /\ \A i \in DOMAIN attempts :
                 attempts[i] = "HTTPStatusError" =>
                     /\ i = Len(attempts)
                     /\ call[r].state = "raised"
                     /\ call[r].error = "HTTPStatusError"
           /\ (attempts # <<>> /\ attempts[1] = "HTTPStatusError") =>
                 Len(attempts) = 1

\* a call raised on a first attempt answered with an error status, with
\* attempts left in the budget
C10_Witness ==
    \E r \in RunIds :
        /\ call[r].state = "raised"
        /\ call[r].attempts = <<"HTTPStatusError">>
        /\ Len(call[r].attempts) < STOP_AFTER_ATTEMPT

\* C11: a call whose three attempts all failed with a connection failure or
\* a timeout raises the error of its last attempt, a transport error, and
\* that error is what ends the run.
C11_ExhaustionReraises ==
    \A r \in RunIds :
        LET attempts == call[r].attempts
        IN ( /\ call[r].state = "raised"
             /\ Len(attempts) = STOP_AFTER_ATTEMPT
             /\ \A i \in DOMAIN attempts : attempts[i] \in Transient )
           => /\ call[r].error = attempts[STOP_AFTER_ATTEMPT]
              /\ call[r].error \in Transient
              /\ run[r].pc = "raised" => run[r].error = call[r].error

\* a run ended by a call that failed with two connection failures and then
\* a timeout
C11_Witness ==
    \E r \in RunIds :
        /\ run[r].pc = "raised"
        /\ call[r].attempts
              = <<"ConnectError", "ConnectError", "TimeoutException">>
        /\ run[r].error = "TimeoutException"

\* the profiles of the fleet
ConfiguredProfiles == {personal, work, research}

\* the profile a unit's context holds by its own sets, switches and resets
OwnProfile(u) ==
    IF unit[u].installed = NoContext THEN settings.default_profile
    ELSE unit[u].installed.profile_name

\* the client name a request of unit u resolves to
ExpectedClient(u) ==
    Lower(IF unit[u].override # NoName THEN unit[u].override
          ELSE OwnProfile(u))

\* C12: every pass of a request resolves to the lower-cased override when
\* one is given, whatever the unit's context is, and to the profile of the
\* unit's context otherwise; when that name has a client the attempt goes
\* through that client, and when it has none the request raises the
\* unknown-profile error at once, with no attempt made or added.
C12_ClientResolution ==
    [][\A u \in Units :
          (unit[u].req.state = "active" /\ unit'[u] # unit[u]) =>
              IF ExpectedClient(u) \in clients
              THEN /\ Len(unit'[u].req.attempts)
                         = Len(unit[u].req.attempts) + 1
                   /\ unit'[u].dispatched
                         = Append(unit[u].dispatched, ExpectedClient(u))
                   /\ unit'[u].req.error # "ValueError"
              ELSE /\ unit'[u].req.state = "raised"
                   /\ unit'[u].req.error = "ValueError"
                   /\ unit'[u].req.attempts = unit[u].req.attempts
                   /\ unit'[u].dispatched = unit[u].dispatched]_vars

\* a request with override WORK, made by a unit whose context is research,
\* returned through the client of work
C12_Witness ==
    \E u \in Units :
        /\ unit[u].req.state = "returned"
        /\ unit[u].override = WORK
        /\ unit[u].installed # NoContext
        /\ unit[u].installed.profile_name = research
        /\ unit[u].dispatched = <<work>>

\* C18: a step that is not an operation of unit v changes neither the
\* profile get returns in v nor the client a request of v resolves to, and
\* all the attempts of one request of v go through one client.
C18_ContextIsolation ==
    [][\A v \in Units :
          /\ unit'[v] = unit[v] =>
                /\ get_current_profile(current_profile'[v])
                       = get_current_profile(current_profile[v])
                /\ current_profile'[v] = current_profile[v]
          /\ \A i \in DOMAIN unit'[v].dispatched :
                unit'[v].dispatched[i] = unit'[v].dispatched[1]]_vars

\* a request without override, made before any switch, went twice through
\* the default profile's client, and the other unit has switched to work
C18_Witness ==
    /\ unit["u2"].override = NoName
    /\ unit["u2"].following = NoName
    /\ unit["u2"].dispatched = <<personal, personal>>
    /\ current_profile["u2"] = NoContext
    /\ current_profile["u1"] # NoContext
    /\ current_profile["u1"].profile_name = work
    /\ session = work

\* C19: a request without override that is made after a successful switch
\* to p, with no reset since, goes through the client of p.
C19_SwitchRoutesFollowing ==
    \A u \in Units :
        ( /\ unit[u].op = "request"
          /\ unit[u].override = NoName
          /\ unit[u].following # NoName )
        => \A i \in DOMAIN unit[u].dispatched :
               unit[u].dispatched[i] = unit[u].following

\* the context get returns when nothing is set
DefaultContext == ProfileContext(settings.default_profile, None)

\* C15: a get returns the context of the unit's last set or switch, and the
\* default profile when there was none or a reset followed; a set with a
\* name that is, in lower case, personal, work or research succeeds,
\* returns a context with the lower-cased name and the session id, and that
\* context is what get returns from then on; after a reset, get returns the
\* default profile.
C15_ContextOperations ==
    \A u \in Units :
        LET last == unit[u]
            now == get_current_profile(current_profile[u])
        IN /\ last.op = "get" =>
                 /\ last.result = now
                 /\ last.result = IF last.installed = NoContext
                                  THEN DefaultContext
                                  ELSE last.installed
           /\ last.op = "set" =>
                 /\ last.error = "" <=> Lower(last.arg) \in ConfiguredProfiles
                 /\ last.error = "" =>
                        /\ last.result = ProfileContext(Lower(last.arg),
                                                        last.session_id)
                        /\ now = last.result
           /\ last.op = "reset" => now = DefaultContext

\* a get returned the context that a set of WORK with a session id installed
C15_Witness ==
    \E u \in Units :
        /\ unit[u].op = "get"
        /\ unit[u].result = ProfileContext(work, "sess_123")
        /\ settings.default_profile = personal

\* C16: a set or switch_profile with a name outside the fixed profile set
\* raises the invalid-profile error and changes nothing: no unit's context,
\* no client of the router, no request made or attempted.
C16_InvalidProfileRejected ==
    [][\A u \in Units :
          ( /\ unit'[u] # unit[u]
            /\ unit'[u].op \in {"set", "switch_profile"}
            /\ Lower(unit'[u].arg) \notin ConfiguredProfiles )
          => /\ unit'[u].error = "ValueError"
             /\ unit'[u].result = NoContext
             /\ current_profile' = current_profile
             /\ clients' = clients
             /\ unit'[u].req = NoCall
             /\ unit'[u].dispatched = <<>>
             /\ \A v \in Units \ {u} : unit'[v] = unit[v]
             /\ health' = health]_vars

\* a set of bogus was rejected in a unit whose context holds work, with the
\* router's clients initialized
C16_Witness ==
    \E u \in Units :
        /\ unit[u].op = "set"
        /\ unit[u].arg = bogus
        /\ unit[u].error = "ValueError"
        /\ current_profile[u] # NoContext
        /\ current_profile[u].profile_name = work
        /\ clients # {}

\* C17: in every unit of work the profile get returns is personal, work or
\* research, in lower case, and so is the profile every get has returned.
C17_ProfileNameInvariant ==
    \A u \in Units :
        LET name == get_current_profile(current_profile[u]).profile_name
        IN /\ name \in ConfiguredProfiles
           /\ Lower(name) = name
           /\ unit[u].op = "get" =>
                  unit[u].result.profile_name \in ConfiguredProfiles

\* a get returned research after a set of WORK, a rejected set and a switch
\* in the other unit
C17_Witness ==
    /\ unit["u1"].op = "get"
    /\ unit["u1"].result.profile_name = research
    /\ unit["u2"].op = "set"
    /\ unit["u2"].error = "ValueError"
    /\ unit["u2"].installed = ProfileContext(work, None)

\* C20: a switch_profile that succeeds returns, as previous_profile, the
\* profile the unit's context held just before the call, which is the
\* default profile when nothing was set or a reset came last, and, as
\* current_profile, the requested name in lower case.
C20_SwitchReportsTransition ==
    [][\A u \in Units :
          ( /\ unit'[u] # unit[u]
            /\ unit'[u].op = "switch_profile"
            /\ unit'[u].error = "" )
          => /\ unit'[u].result.previous_profile = OwnProfile(u)
             /\ unit'[u].result.current_profile = Lower(unit'[u].arg)
             /\ get_current_profile(current_profile'[u]).profile_name
                    = Lower(unit'[u].arg)]_vars

\* a switch from work to research
C20_Witness ==
    \E u \in Units :
        /\ unit[u].op = "switch_profile"
        /\ unit[u].error = ""
        /\ unit[u].result = SwitchProfileOutput(work, research)

\* the status health_check owes a profile whose own request ended as o
OwnStatus(o) ==
    IF o.state = "returned" /\ o.response # "invalid" THEN "healthy"
    ELSE "unhealthy"

\* C13: the status reported for a profile is healthy exactly when that
\* profile's own request returned a usable response, whatever the requests
\* of the other profiles ended with, and a health check that returned has
\* made one request for each of its profiles, in order.
C13_HealthIsolation ==
    /\ \A i \in DOMAIN health.outcomes :
          LET o == health.outcomes[i]
          IN /\ o.name = health.profiles[i]
             /\ o.name \in DOMAIN health.results =>
                    health.results[o.name].status = OwnStatus(o)
    /\ health.state = "returned" =>
          /\ Len(health.outcomes) = Len(health.profiles)
          /\ \A i \in DOMAIN health.outcomes :
                health.outcomes[i].name \in DOMAIN health.results

\* a check of all profiles returned: personal failed with an error status,
\* work is healthy, research timed out three times
C13_Witness ==
    /\ health.state = "returned"
    /\ health.profile_name = NoName
    /\ DOMAIN health.results = ConfiguredProfiles
    /\ health.results[personal].status = "unhealthy"
    /\ health.results[personal].error = "HTTPStatusError"
    /\ health.results[work].status = "healthy"
    /\ health.results[research].status = "unhealthy"
    /\ health.results[research].error = "TimeoutException"

\* C14: health_check never raises; when it has returned, its map has one
\* entry for each profile that had a client when it was called, or for the
\* lower-cased named profile alone when one is given, and every entry is
\* healthy with a response or unhealthy with an error.
C14_HealthNeverRaises ==
    /\ health.state # "raised"
    /\ health.state = "returned" =>
          /\ DOMAIN health.results
                = IF health.profile_name # NoName
                  THEN {Lower(health.profile_name)}
                  ELSE health.keys
          /\ \A name \in DOMAIN health.results :
                LET entry == health.results[name]
                IN \/ /\ DOMAIN entry = {"status", "response"}
                      /\ entry.status = "healthy"
                   \/ /\ DOMAIN entry = {"status", "error"}
                      /\ entry.status = "unhealthy"

\* a check of the profile bogus, which has no client, returned one
\* unhealthy entry with the unknown-profile error
C14_Witness ==
    /\ health.state = "returned"
    /\ health.profile_name = bogus
    /\ DOMAIN health.results = {bogus}
    /\ health.results[bogus].status = "unhealthy"
    /\ health.results[bogus].error = "ValueError"


\* the similarity of name and the name of element e is at least the threshold
Reaches(name, e) ==
    LET ratio == fuzzy_match(name, e.name)
    IN 100 * ratio[1] >= FUZZY_MATCH_THRESHOLD * ratio[2]

\* the positions of the existing list whose element reaches the threshold
Hits == {i \in DOMAIN matching.existing :
            Reaches(matching.name, matching.existing[i])}

\* C21: the matcher returns the element of the existing list at the first
\* position whose similarity to the declared name is at least the
\* threshold, whatever the similarity of the elements after it, and none
\* exactly when no element reaches the threshold; so for relations and for
\* types.
C21_FirstAboveThreshold ==
    matching.pc \in {"matched", "classified"} =>
        /\ matching.relation = <<>> <=> Hits = {}
        /\ matching.type = <<>> <=> Hits = {}
        /\ Hits # {} =>
              \E i \in Hits :
                  /\ \A j \in Hits : i <= j
                  /\ matching.relation = <<matching.existing[i]>>
                  /\ matching.type = <<matching.existing[i]>>

\* for the declared name tag the matcher returned tags, the first element,
\* and not the element tag that follows it
C21_Witness ==
    /\ matching.pc = "matched"
    /\ matching.name = ntag
    /\ matching.existing = <<[id |-> 1, name |-> ntags],
                             [id |-> 2, name |-> ntag]>>
    /\ matching.relation = <<[id |-> 1, name |-> ntags]>>


\* the positions of the existing list whose name is the declared name up to
\* letter case
SameUpToCase ==
    {i \in DOMAIN matching.existing :
        Lower(matching.existing[i].name) = Lower(matching.name)}

\* C22: a declared relation, and a declared type, is reported as existing
\* when some existing name has a similarity of at least 0.85 to it and as
\* missing otherwise; an existing name that differs from it by letter case
\* only has similarity 1.0 and makes it existing.
C22_MatchThreshold ==
    matching.pc = "classified" =>
        LET name == matching.name
            diff == matching.diff
        IN /\ diff.existing_relations = IF Hits # {} THEN <<name>> ELSE <<>>
           /\ diff.missing_relations = IF Hits # {} THEN <<>> ELSE <<name>>
           /\ diff.existing_types = IF Hits # {} THEN <<name>> ELSE <<>>
           /\ diff.missing_types = IF Hits # {} THEN <<>> ELSE <<name>>
           /\ \A i \in SameUpToCase :
                 LET ratio == fuzzy_match(name, matching.existing[i].name)
                 IN ratio[1] = ratio[2]
           /\ SameUpToCase # {} => diff.existing_relations = <<name>>

\* Status is declared; Statuz, with a similarity of 10/12, did not match
\* it, and status, which follows, did: Status is reported as existing
C22_Witness ==
    /\ matching.pc = "classified"
    /\ matching.name = nStatus
    /\ matching.existing = <<[id |-> 1, name |-> nStatuz],
                             [id |-> 2, name |-> nstatus]>>
    /\ matching.relation = <<[id |-> 2, name |-> nstatus]>>
    /\ matching.diff.existing_relations = <<nStatus>>
    /\ matching.diff.missing_types = <<>>


\* the create requests unit r has handed to the router
Creates(r) == SelectSeq(requests[r], IsCreate)

\* C23: a run hands a create request to the router only when it has no
\* request in flight and every create request before it has returned and
\* been recorded; a create request that is not the first of the run is
\* sent from the sleep that follows the creation before it.
C23_SequentialCreation ==
    [][\A r \in RunIds :
          ( /\ Len(requests'[r]) = Len(requests[r]) + 1
            /\ IsCreate(requests'[r][Len(requests'[r])]) )
          => /\ call[r].state # "active"
             /\ call'[r].state = "active"
             /\ IsCreate(call'[r])
             /\ Len(Creates(r))
                   = Len(run[r].created_relations) + Len(run[r].created_types)
             /\ Creates(r) # <<>> =>
                   run[r].pc \in {"sleep_relation", "sleep_type"}
             /\ Creates(r) = <<>> => run[r].pc = "fetch_types"]_vars

\* the second create request of a run is in flight, the first relation
\* having been created and recorded
C23_Witness ==
    \E r \in RunIds :
        /\ run[r].pc = "create_relation"
        /\ call[r].state = "active"
        /\ Len(Creates(r)) = 2
        /\ Len(run[r].created_relations) = 1


\* the state of the run of unit r: UNPLANNED until the diff is built, also
\* when a fetch has ended the run; DIFFED while the creations go on;
\* DRY_RUN_REPORTED or APPLIED when it is over
Phase(r) ==
    IF run[r].pc \in {"idle", "fetch_relations", "fetch_types"}
    THEN "UNPLANNED"
    ELSE IF run[r].pc \in {"create_relation", "sleep_relation",
                           "create_type", "sleep_type"}
    THEN "DIFFED"
    ELSE IF run[r].pc = "returned"
    THEN IF run[r].input.dry_run THEN "DRY_RUN_REPORTED" ELSE "APPLIED"
    ELSE IF IsCreate(call[r]) THEN "APPLIED" ELSE "UNPLANNED"

\* the two snapshot fetches, relations then types
SnapshotFetches ==
    <<[method |-> "GET", path |-> "relations", json |-> NoJson],
      [method |-> "GET", path |-> "types", json |-> NoJson]>>

\* C24: a run leaves UNPLANNED only when its two snapshot fetches,
\* relations then types, have returned, with the diff built, and goes to
\* DRY_RUN_REPORTED if it is a dry run and to DIFFED or APPLIED if not;
\* from DIFFED it goes to APPLIED only; DRY_RUN_REPORTED and APPLIED are
\* final.  A create request is sent in DIFFED only, a run that a fetch
\* ended has sent none, and APPLIED is entered with every missing element
\* created or with the error of the failed create request.
C24_RunStateMachine ==
    [][\A r \in RunIds :
          /\ (Phase(r) = "UNPLANNED" /\ Phase(r)' # "UNPLANNED") =>
                /\ run[r].pc = "fetch_types"
                /\ call[r].state = "returned"
                /\ requests[r] = SnapshotFetches
                /\ run'[r].diff = OntologyDiff(run'[r].missing_relations,
                                               run'[r].missing_types,
                                               run'[r].skipped_relations,
                                               run'[r].skipped_types)
                /\ Phase(r)' = "DRY_RUN_REPORTED" <=> run[r].input.dry_run
          /\ Phase(r) = "DIFFED" => Phase(r)' \in {"DIFFED", "APPLIED"}
          /\ Phase(r) \in {"DRY_RUN_REPORTED", "APPLIED"} =>
                /\ Phase(r)' = Phase(r)
                /\ run'[r] = run[r]
                /\ requests'[r] = requests[r]
          /\ Creates(r)' # Creates(r) => Phase(r)' = "DIFFED"
          /\ (run'[r].pc = "raised" /\ ~IsCreate(call'[r])) =>
                Creates(r)' = <<>>
          /\ (Phase(r) # "APPLIED" /\ Phase(r)' = "APPLIED") =>
                \/ /\ run'[r].pc = "returned"
                   /\ run'[r].created_relations
                         = Names(run'[r].missing_relations)
                   /\ run'[r].created_types = Names(run'[r].missing_types)
                   /\ Len(Creates(r)') = Len(run'[r].missing_relations)
                                            + Len(run'[r].missing_types)
                \/ /\ run'[r].pc = "raised"
                   /\ call[r].state = "raised"
                   /\ run'[r].error = call[r].error
                   /\ run'[r].error # ""]_vars

\* a real run is APPLIED after it created two relations and a type
C24_Witness ==
    \E r \in RunIds :
        /\ Phase(r) = "APPLIED"
        /\ run[r].pc = "returned"
        /\ Len(requests[r]) = 2 + MaxRels + 1
        /\ Len(run[r].created_relations) = MaxRels
        /\ Len(run[r].created_types) = 1


\* the manifest has a relation or a type entry with an empty name
HasEmptyName(manifest) ==
    \/ \E i \in DOMAIN manifest.relations : manifest.relations[i].name = <<>>
    \/ \E i \in DOMAIN manifest.types : manifest.types[i].name = <<>>

\* C25: a call whose manifest has an entry with an empty name is answered
\* with a validation error, and it sends no request, fetch or create, and
\* leaves the backend as it was.
C25_ValidationFailFast ==
    \A r \in RunIds :
        (run[r].pc # "idle" /\ HasEmptyName(run[r].input.manifest)) =>
            /\ run[r].pc = "rejected"
            /\ run[r].error = "ValidationError"
            /\ run[r].result = NoResult
            /\ requests[r] = <<>>
            /\ call[r] = NoCall
            /\ relations = run[r].start_relations
            /\ types = run[r].start_types

\* a real call was rejected whose manifest has a well-formed relation
\* before the one with an empty name
C25_Witness ==
    \E r \in RunIds :
        /\ run[r].pc = "rejected"
        /\ ~run[r].input.dry_run
        /\ run[r].input.manifest.relations = <<[name |-> nTag], [name |-> <<>>]>>
        /\ requests[r] = <<>>


\* the relations of the backend in space_id that are named name
RelationsNamed(space_id, name) ==
    {i \in DOMAIN relations :
        relations[i].spaceId = space_id /\ relations[i].name = name}

\* the types of the backend in space_id that are named name
TypesNamed(space_id, name) ==
    {i \in DOMAIN types : types[i].spaceId = space_id /\ types[i].name = name}

\* the two calls have the same input and were given the same snapshot
SameSnapshot ==
    /\ run["r2"].input = run["r1"].input
    /\ run["r2"].existing_relations = run["r1"].existing_relations
    /\ run["r2"].existing_types = run["r1"].existing_types

\* C26: when two real calls with the same manifest and space were given
\* the same snapshot and both returned, both report every missing element
\* as created, and the backend holds at least two relations, and two
\* types, of each missing name: nothing keeps the second call from
\* creating what the first has created.
C26_ConcurrentRunsDuplicate ==
    ( /\ run["r1"].pc = "returned"
      /\ run["r2"].pc = "returned"
      /\ ~run["r1"].input.dry_run
      /\ SameSnapshot )
    => /\ run["r1"].missing_relations = run["r2"].missing_relations
       /\ run["r1"].missing_types = run["r2"].missing_types
       /\ \A r \in RunIds :
             /\ run[r].result.created_relations
                   = Names(run[r].missing_relations)
             /\ run[r].result.created_types = Names(run[r].missing_types)
       /\ \A k \in DOMAIN run["r1"].missing_relations :
             Cardinality(RelationsNamed(run["r1"].input.space_id,
                            run["r1"].missing_relations[k].name)) >= 2
       /\ \A k \in DOMAIN run["r1"].missing_types :
             Cardinality(TypesNamed(run["r1"].input.space_id,
                            run["r1"].missing_types[k].name)) >= 2

\* over a space that held no relation, two concurrent calls that declare
\* Tag once both fetched before either created, both created Tag, and the
\* space holds two relations named Tag
C26_Witness ==
    /\ run["r1"].pc = "returned"
    /\ run["r2"].pc = "returned"
    /\ SameSnapshot
    /\ run["r1"].existing_relations = <<>>
    /\ Names(run["r1"].input.manifest.relations) = <<nTag>>
    /\ run["r1"].result.created_relations = <<nTag>>
    /\ run["r2"].result.created_relations = <<nTag>>
    /\ Cardinality(RelationsNamed(run["r1"].input.space_id, nTag)) = 2


\* C27: however often the initialization step and close have run, the
\* router holds one client for each configured profile or none, and no
\* client is open that its map does not hold.
C27_LifecycleIdempotent ==
    /\ clients \in {{}, ConfiguredProfiles}
    /\ orphans = {}

\* how far the health check has come
HealthProgress ==
    <<health.state, health.profile_name, health.req.state,
      health.req.attempts, Len(health.outcomes), DOMAIN health.results>>

\* C28: a step of a request or of a health check leaves the router's
\* clients as they are, those of its map and those outside it; a step that
\* changes them is the initialization step or close, and does nothing
\* else.
C28_ClientsFrame ==
    [][/\ (unit' # unit \/ HealthProgress' # HealthProgress) =>
             (clients' = clients /\ orphans' = orphans)
       /\ (clients' # clients \/ orphans' # orphans) =>
             /\ \/ /\ clients' = init_clients(clients)
                   /\ orphans' = orphaned_by_init(clients, orphans)
                \/ /\ clients' = close(clients)
                   /\ orphans' = orphaned_by_close(clients, orphans)
             /\ unit' = unit
             /\ HealthProgress' = HealthProgress]_vars

\* with the clients initialized, a request for the profile bogus raised
\* the unknown-profile error and a health check of it reported it
\* unhealthy: the clients are those of the configured profiles
C28_Witness ==
    /\ clients = ConfiguredProfiles
    /\ \E u \in Units :
          /\ unit[u].override = bogus
          /\ unit[u].req.state = "raised"
          /\ unit[u].req.error = "ValueError"
    /\ health.state = "returned"
    /\ health.profile_name = bogus
    /\ health.keys = ConfiguredProfiles

\* the run is fetching its snapshot: Step 1 is not over
Fetching(r) == run[r].pc \in {"fetch_relations", "fetch_types"}

\* the run has built its diff
Planned(r) == Phase(r) # "UNPLANNED"

\* C29: two runs of the same manifest that fetched the same snapshot, same
\* elements in the same order, built the same diff and the same two
\* creation lists, whatever else differs between them; and while a run
\* fetches its snapshot and builds its diff the backend's stores stay as
\* they are and the run has sent nothing but the two list fetches.
C29_PlanningPure ==
    /\ [](\A r \in RunIds : \A q \in RunIds :
            ( /\ Planned(r)
              /\ Planned(q)
              /\ run[r].input.manifest = run[q].input.manifest
              /\ run[r].existing_relations = run[q].existing_relations
              /\ run[r].existing_types = run[q].existing_types ) =>
                /\ run[r].diff = run[q].diff
                /\ run[r].missing_relations = run[q].missing_relations
                /\ run[r].missing_types = run[q].missing_types)
    /\ [][\A r \in RunIds :
            Fetching(r) =>
                /\ relations' = relations
                /\ types' = types
                /\ next_id' = next_id
                /\ \E k \in 0..2 : requests[r] = SubSeq(SnapshotFetches, 1, k)
                /\ Planned(r)' => requests[r] = SnapshotFetches]_vars

\* a dry run and then a real run of one manifest fetched the same
\* snapshot, which holds a relation, and built the same diff, which has a
\* skipped relation and a missing type; the real run created the type
C29_Witness ==
    /\ run["r1"].pc = "returned"
    /\ run["r2"].pc = "returned"
    /\ run["r1"].input.dry_run
    /\ ~run["r2"].input.dry_run
    /\ run["r1"].existing_relations # <<>>
    /\ run["r1"].existing_relations = run["r2"].existing_relations
    /\ run["r1"].existing_types = run["r2"].existing_types
    /\ run["r1"].diff = run["r2"].diff
    /\ run["r1"].skipped_relations # <<>>
    /\ run["r1"].missing_types # <<>>
    /\ Len(run["r2"].created_types) = 1

\* the identifier of the existing relation the declared name matches in the
\* run's snapshot, 0 if it matches none
MatchedId(r, name) ==
    LET match == find_matching_relation(name, run[r].existing_relations)
    IN IF match # <<>> THEN match[1].id ELSE 0

\* the declared relations of the run's manifest that match an existing one
MatchedDeclared(r) ==
    LET Matches(d) == MatchedId(r, d.name) # 0
    IN SelectSeq(run[r].input.manifest.relations, Matches)

\* the references of the type definition to declared relations that match
\* the existing relation of that identifier
ReferencesTo(r, type_def, id) ==
    {k \in DOMAIN type_def.relations :
        \E i \in DOMAIN run[r].input.manifest.relations :
            LET d == run[r].input.manifest.relations[i]
            IN /\ Lower(d.name) = Lower(type_def.relations[k])
               /\ MatchedId(r, d.name) = id}

Occurrences(seq, v) == Cardinality({k \in DOMAIN seq : seq[k] = v})

\* C30: every declared relation that matches an existing one is reported
\* as skipped and bound to that relation's identifier, also when another
\* declared relation matches the same one; and the create request of a
\* missing type carries that identifier once for every reference of the
\* type to a declared relation matching it, twice when the type names two
\* of them.
C30_NoDeduplication ==
    \A r \in RunIds :
        Planned(r) =>
            /\ run[r].skipped_relations = Names(MatchedDeclared(r))
            /\ \A i \in DOMAIN run[r].input.manifest.relations :
                  LET name == run[r].input.manifest.relations[i].name
                  IN MatchedId(r, name) # 0 =>
                        Get(run[r].relation_name_to_id, Lower(name))
                            = MatchedId(r, name)
            /\ \A p \in DOMAIN requests[r] :
                  \A t \in DOMAIN run[r].missing_types :
                      LET c == requests[r][p]
                          type_def == run[r].missing_types[t]
                      IN ( /\ c.method = "POST"
                           /\ c.path = "types"
                           /\ c.json.name = type_def.name ) =>
                             \A e \in DOMAIN run[r].existing_relations :
                                 LET id == run[r].existing_relations[e].id
                                 IN Occurrences(c.json.recommendedRelations,
                                                id)
                                      = Cardinality(
                                            ReferencesTo(r, type_def, id))

\* the declared relations Tag and tags both matched the existing relation
\* tag, whose identifier is 1; the missing type docs, which references
\* tags and tag, was created with the identifiers 1 and 1
C30_Witness ==
    /\ run["r1"].pc = "returned"
    /\ run["r1"].input.manifest.relations = <<[name |-> nTag], [name |-> ntags]>>
    /\ run["r1"].skipped_relations = <<nTag, ntags>>
    /\ Get(run["r1"].relation_name_to_id, ntag) = 1
    /\ Get(run["r1"].relation_name_to_id, ntags) = 1
    /\ run["r1"].created_types = <<ndocs>>
    /\ \E p \in DOMAIN requests["r1"] :
          /\ requests["r1"][p].method = "POST"
          /\ requests["r1"][p].path = "types"
          /\ requests["r1"][p].json.recommendedRelations = <<1, 1>>

Min(a, b) == IF a < b THEN a ELSE b

\* C31: the wait after the n-th failed attempt of a request is 500 ms
\* doubled n - 1 times and at most 10 s; a request is retried after 500 ms
\* and then after 1000 ms, and no wait follows the attempt that uses up
\* the budget of 3 or any attempt that is not retried.
C31_BackoffSchedule ==
    /\ \A n \in 1..MaxAttemptNumber :
          /\ wait_exponential(n) = Min(500 * 2 ^ (n - 1), 10000)
          /\ wait_exponential(n + 1) = Min(2 * wait_exponential(n), 10000)
    /\ \A r \in RunIds :
          LET c == call[r]
          IN /\ \A k \in DOMAIN c.waits :
                   /\ c.waits[k] = 500 * 2 ^ (k - 1)
                   /\ k < STOP_AFTER_ATTEMPT
                   /\ k <= Len(c.attempts)
                   /\ retry_if_exception_type(c.attempts[k])
             /\ c.waits \in {<<>>, <<500>>, <<500, 1000>>}
             /\ c.state = "active" => Len(c.waits) = Len(c.attempts)
             /\ c.state = "returned" => Len(c.waits) = Len(c.attempts) - 1
             /\ c.state = "raised" => Len(c.waits) = Len(c.attempts) - 1

\* a request failed three times with a timeout or a refused connection and
\* raised: it waited 500 ms and then 1000 ms
C31_Witness ==
    \E r \in RunIds :
        /\ call[r].state = "raised"
        /\ Len(call[r].attempts) = STOP_AFTER_ATTEMPT
        /\ retry_if_exception_type(call[r].error)
        /\ call[r].waits = <<500, 1000>>

\* the request of run r used up its retry budget on connection failures
\* and timeouts
Exhausted(r) ==
    /\ call[r].state = "raised"
    /\ Len(call[r].attempts) = STOP_AFTER_ATTEMPT
    /\ \A i \in DOMAIN call[r].attempts : call[r].attempts[i] \in Transient

\* C32, as stated: a request that used up its retry budget raises an error
\* of the kind RemoteUnavailable, and so does the run it ends.
C32_SurfacedAsRemoteUnavailable ==
    \A r \in RunIds :
        Exhausted(r) =>
            /\ call[r].error = "RemoteUnavailable"
            /\ run[r].pc = "raised" => run[r].error = "RemoteUnavailable"

\* C32, amended: a request that used up its retry budget raises the
\* connection failure or timeout of its last attempt, an error of the kind
\* that was retried and of no kind of its own; the errors a request raises
\* are the outcomes of its attempts.
C32_SurfacedAsTransportError ==
    \A r \in RunIds :
        /\ call[r].state = "raised" =>
              /\ call[r].error \in Outcomes \ {"ok"}
              /\ call[r].error = call[r].attempts[Len(call[r].attempts)]
        /\ Exhausted(r) =>
              /\ call[r].error \in {"ConnectError", "TimeoutException"}
              /\ \E i \in 1..(STOP_AFTER_ATTEMPT - 1) :
                    /\ call[r].attempts[i] \in Transient
                    /\ Len(call[r].waits) >= i
              /\ run[r].pc = "raised" =>
                    run[r].error \in {"ConnectError", "TimeoutException"}

\* a run raised the timeout its fetch met at the third attempt, after two
\* refused connections
C32_Witness ==
    \E r \in RunIds :
        /\ Exhausted(r)
        /\ call[r].attempts = <<"ConnectError", "ConnectError", "TimeoutException">>
        /\ run[r].pc = "raised"
        /\ run[r].error = "TimeoutException"

\* C33: while the request of one unit is in its retry wait, the request of
\* any other unit that is under way can make its next attempt, and that
\* attempt can complete it when the request resolves to a client; a step
\* of one unit's request changes nothing of the other unit's request.
C33_BackoffBlocksOnlyCaller ==
    \A u \in Units : \A v \in Units \ {u} :
        (InBackoff(u) /\ Awaiting(v)) =>
            /\ ENABLED RouterAttempt(v)
            /\ ENABLED (RouterAttempt(v) /\ unit'[u] = unit[u]
                           /\ unit'[v].req.state # "active")
            /\ get_client(clients, unit[v].override,
                          current_profile[v]).error = "" =>
                  ENABLED (RouterAttempt(v)
                             /\ unit'[v].req.state = "returned"
                             /\ InBackoff(u)')

\* the first unit's request is in the wait after its first attempt, and
\* the request the second unit made during that wait went through the
\* same client and returned
C33_Witness ==
    /\ InBackoff("u1")
    /\ Len(unit["u1"].req.attempts) = 1
    /\ unit["u2"].req.state = "returned"
    /\ unit["u2"].dispatched = <<unit["u1"].dispatched[1]>>

\* C34: a real run that returned has added to the backend one relation for
\* each entry of diff.missing_relations and one type for each entry of
\* diff.missing_types, and nothing else, whatever attempts of its create
\* requests timed out and were made again.
C34_OneElementPerMissingEntry ==
    \A r \in RunIds :
        ( /\ run[r].pc = "returned"
          /\ ~run[r].input.dry_run ) =>
            /\ Len(relations) = Len(run[r].start_relations)
                                   + Len(run[r].diff.missing_relations)
            /\ Len(types) = Len(run[r].start_types)
                               + Len(run[r].diff.missing_types)

\* the reference is, up to case, the name of a relation the manifest of
\* run r declares
NamesDeclared(r, rel_name) ==
    \E i \in DOMAIN run[r].input.manifest.relations :
        Lower(run[r].input.manifest.relations[i].name) = Lower(rel_name)

\* C35: the create request of a missing type carries, in reference order,
\* the identifier bound to each reference that is up to case the name of a
\* declared relation, which the run matched or created, and nothing for
\* any other reference: one that only fuzzy-matches a declared name and
\* one that names a relation of the snapshot the manifest does not declare
\* have no identifier.
C35_ExactReferenceResolution ==
    \A r \in RunIds :
        \A k \in DOMAIN Posts(r, "types") :
            LET type_def == run[r].missing_types[k]
                ids == Posts(r, "types")[k].json.recommendedRelations
                resolved == SelectSeq(type_def.relations,
                                      LAMBDA n : NamesDeclared(r, n))
            IN /\ Len(ids) = Len(resolved)
               /\ \A j \in DOMAIN ids :
                     /\ ids[j] # 0
                     /\ ids[j] = Get(run[r].relation_name_to_id,
                                     Lower(resolved[j]))
                     /\ \E b \in bindings[r] :
                           /\ b.kind = "relation"
                           /\ b.name = Lower(resolved[j])
                           /\ b.how \in {"matched", "created"}
               /\ \A j \in DOMAIN type_def.relations :
                     LET n == type_def.relations[j]
                     IN NamesDeclared(r, n)
                          <=> Get(run[r].relation_name_to_id, Lower(n)) # 0

\* the relation tags was declared and matched the existing relation tag;
\* the type docs, which references tags and tag, was created with one
\* identifier: the reference tag, which fuzzy-matches the declared name
\* and names the existing relation, was dropped
C35_Witness ==
    /\ run["r1"].pc = "returned"
    /\ run["r1"].input.manifest.relations = <<[name |-> ntags]>>
    /\ run["r1"].skipped_relations = <<ntags>>
    /\ \E i \in DOMAIN run["r1"].existing_relations :
          run["r1"].existing_relations[i].name = ntag
    /\ Similar(ntag, ntags)
    /\ run["r1"].created_types = <<ndocs>>
    /\ Len(Posts("r1", "types")) = 1
    /\ Len(Posts("r1", "types")[1].json.recommendedRelations) = 1

\* the declared entries that match nothing of the snapshot, in manifest
\* order
Unmatched(r) ==
    [relations |->
        SelectSeq(run[r].input.manifest.relations,
                  LAMBDA d : find_matching_relation(
                                 d.name, run[r].existing_relations) = <<>>),
     types |->
        SelectSeq(run[r].input.manifest.types,
                  LAMBDA d : find_matching_type(
                                 d.name, run[r].existing_types) = <<>>)]

\* C36: a real run that returned has sent, after its two fetches, one
\* create request for each missing entry and no other: the missing
\* relations in manifest order, then the missing types in manifest order;
\* its result's created lists are the diff's missing lists and its skipped
\* lists the diff's existing lists.
C36_CreationFollowsPlan ==
    \A r \in RunIds :
        ( /\ run[r].pc = "returned"
          /\ ~run[r].input.dry_run ) =>
            LET diff == run[r].result.diff
                posted == Creates(r)
                nrel == Len(diff.missing_relations)
            IN /\ requests[r] = SnapshotFetches \o posted
               /\ diff.missing_relations = Names(Unmatched(r).relations)
               /\ diff.missing_types = Names(Unmatched(r).types)
               /\ Len(posted) = nrel + Len(diff.missing_types)
               /\ \A i \in DOMAIN posted :
                     IF i <= nrel
                     THEN /\ IsPost(posted[i], "relations")
                          /\ posted[i].json.name = diff.missing_relations[i]
                     ELSE /\ IsPost(posted[i], "types")
                          /\ posted[i].json.name
                                 = diff.missing_types[i - nrel]
               /\ run[r].result.created_relations = diff.missing_relations
               /\ run[r].result.created_types = diff.missing_types
               /\ run[r].result.skipped_relations = diff.existing_relations
               /\ run[r].result.skipped_types = diff.existing_types

\* a real run over an empty space returned after it created the relations
\* Tag and tags and then the type Doc
C36_Witness ==
    /\ run["r1"].pc = "returned"
    /\ run["r1"].result.created_relations = <<nTag, ntags>>
    /\ run["r1"].result.created_types = <<nDoc>>
    /\ run["r1"].result.skipped_relations = <<>>
    /\ Len(Creates("r1")) = 3

\* s holds the elements of a and of b, each sequence in its own order
RECURSIVE Interleaves(_, _, _)
Interleaves(s, a, b) ==
    IF s = <<>> THEN a = <<>> /\ b = <<>>
    ELSE \/ /\ a # <<>>
            /\ Head(a) = Head(s)
            /\ Interleaves(Tail(s), Tail(a), b)
         \/ /\ b # <<>>
            /\ Head(b) = Head(s)
            /\ Interleaves(Tail(s), a, Tail(b))

Elements(seq) == {seq[i] : i \in DOMAIN seq}

\* C37: once a run, dry or not, has built its diff, the declared relation
\* names are the diff's missing and existing relation names interleaved,
\* each list in manifest order, no name is in both lists and the two
\* lengths add up to the number of declared relations; the same holds of
\* the declared types.
C37_DiffPartitionsManifest ==
    \A r \in RunIds :
        Planned(r) =>
            LET diff == run[r].diff
                manifest == run[r].input.manifest
            IN /\ Interleaves(Names(manifest.relations),
                              diff.missing_relations,
                              diff.existing_relations)
               /\ Elements(diff.missing_relations)
                     \cap Elements(diff.existing_relations) = {}
               /\ Len(diff.missing_relations) + Len(diff.existing_relations)
                     = Len(manifest.relations)
               /\ Interleaves(Names(manifest.types), diff.missing_types,
                              diff.existing_types)
               /\ Elements(diff.missing_types)
                     \cap Elements(diff.existing_types) = {}
               /\ Len(diff.missing_types) + Len(diff.existing_types)
                     = Len(manifest.types)
               /\ run[r].pc = "returned" => run[r].result.diff = diff

\* a run returned whose manifest declares Tag, Status and tags over a
\* space that holds tag: Tag and tags exist, Status is missing; of its
\* types Status and Tag, declared twice, Tag is missing twice
C37_Witness ==
    /\ run["r1"].pc = "returned"
    /\ Names(run["r1"].input.manifest.relations) = <<nTag, nStatus, ntags>>
    /\ run["r1"].result.diff.existing_relations = <<nTag, ntags>>
    /\ run["r1"].result.diff.missing_relations = <<nStatus>>
    /\ Names(run["r1"].input.manifest.types) = <<nTag, nTag>>
    /\ run["r1"].result.diff.missing_types = <<nTag, nTag>>

IsPrefix(a, b) == Len(a) <= Len(b) /\ SubSeq(b, 1, Len(a)) = a

\* C38: a run sends list requests and create requests only, and the
\* relations and types the backend held when the run was called are all
\* still there as they were, each at its place; an existing type that a
\* declared type matched has the relations it had, also when the relation
\* the manifest declares for that type is in the backend under another
\* identifier.
C38_ExistingSchemaUntouched ==
    \A r \in RunIds :
        run[r].pc # "idle" =>
            /\ \A i \in DOMAIN requests[r] :
                  \/ /\ requests[r][i].method = "GET"
                     /\ requests[r][i].json = NoJson
                  \/ /\ requests[r][i].method = "POST"
                     /\ requests[r][i].path \in {"relations", "types"}
            /\ IsPrefix(run[r].start_relations, relations)
            /\ IsPrefix(run[r].start_types, types)
            /\ \A k \in DOMAIN run[r].input.manifest.types :
                  LET type_def == run[r].input.manifest.types[k]
                      match == find_matching_type(type_def.name,
                                                  run[r].existing_types)
                  IN (Planned(r) /\ match # <<>>) =>
                        /\ \E i \in DOMAIN run[r].start_types :
                              /\ run[r].start_types[i].id = match[1].id
                              /\ run[r].start_types[i].name = match[1].name
                              /\ types[i] = run[r].start_types[i]
                        /\ \A i \in DOMAIN requests[r] :
                              IsPost(requests[r][i], "types") =>
                                  requests[r][i].json.name # type_def.name

\* a run returned that created the relation Status and skipped the type
\* Status, which references it: the existing type status has no relation
\* attached, as before
C38_Witness ==
    /\ run["r1"].pc = "returned"
    /\ run["r1"].result.created_relations = <<nStatus>>
    /\ run["r1"].result.skipped_types = <<nStatus>>
    /\ run["r1"].input.manifest.types
          = <<[name |-> nStatus, relations |-> <<nStatus>>]>>
    /\ \E i \in DOMAIN types :
          /\ types[i].name = nstatus
          /\ types[i].id = 3
          /\ types[i].recommendedRelations = <<>>
    /\ \E i \in DOMAIN relations :
          /\ relations[i].name = nStatus
          /\ relations[i].id = 4

\* C39: no attempt of a request goes through a client that close has
\* closed: a request made or retried once close has begun goes through a
\* client that is open or raises the unknown-profile error.
C39_NoRequestThroughClosedClient ==
    \A u \in Units :
        /\ unit[u].req.error # "RuntimeError"
        /\ \A i \in DOMAIN unit[u].req.attempts :
              unit[u].req.attempts[i] # "RuntimeError"

\* the list requests of run r
Fetches(r) == SelectSeq(requests[r], LAMBDA req : req.method = "GET")

\* C40: a run that was called returns or raises in the end, whatever
\* attempts fail; it has sent at most two list requests and at most one
\* create request for each missing entry, and no request is attempted
\* more than three times.
C40_RunTerminates ==
    /\ \A r \in RunIds : (run[r].pc # "idle") ~> Finished(r)
    /\ [](\A r \in RunIds :
            /\ Len(Fetches(r)) <= 2
            /\ Len(Creates(r)) <= Len(run[r].missing_relations)
                                    + Len(run[r].missing_types)
            /\ Len(requests[r]) = Len(Fetches(r)) + Len(Creates(r))
            /\ Len(call[r].attempts) <= STOP_AFTER_ATTEMPT)

\* a run raised after it fetched twice, created a relation and made three
\* attempts of its second create request
C40_Witness ==
    /\ run["r1"].pc = "raised"
    /\ Len(Fetches("r1")) = 2
    /\ Len(Creates("r1")) = 2
    /\ Len(run["r1"].created_relations) = 1
    /\ Len(call["r1"].attempts) = STOP_AFTER_ATTEMPT

=============================================================================
